---- MODULE Spec2Model ----
(***************************************************************************)
(* Model of the setup pipeline of openmdao/core/system.py: a tree of       *)
(* System nodes is set up on every process of an SPMD group, one recursive *)
(* method after the other (_setup_processors, _setup_variables,            *)
(* _setup_variable_indices, _setup_connections, _setup_vector).            *)
(*                                                                         *)
(* Nodes are numbered 1..n, node 1 is the root, and the children of a node *)
(* are kept in insertion order.  A name is a sequence of one-character     *)
(* strings, so that '.'-joining and wildcard matching are computed.        *)
(* Every per-process attribute is a function of the process (its rank in   *)
(* COMM_WORLD) and of the node; a node that is not resident on a process   *)
(* keeps there the values System.__init__ gave it.                         *)
(***************************************************************************)
EXTENDS Integers, Sequences, FiniteSets, TLC

\* Bounds of the model: the most nodes a hierarchy has, the most nodes of
\* the hierarchies of which every shape is taken, and the most processes.
MaxNodes == 5
MaxTreeNodes == 4
MaxProcs == 2

NodeIds == 1..MaxNodes
Typs == {"input", "output"}
TypSeq == <<"input", "output">>

\* The one-character names given to the nodes 2, 3, ...; the root is ''.
Letters == <<"R", "A", "B", "C", "D", "E", "F", "G">>

\* What a leaf's initialize_variables declares: (inputs, outputs).
LeafShapes ==
  { [input |-> <<>>, output |-> << <<"x">> >>],
    [input |-> << <<"u">> >>, output |-> << <<"x">> >>],
    [input |-> << <<"u">>, <<"v">> >>, output |-> <<>>],
    [input |-> << <<"u">> >>, output |-> << <<"x">>, <<"y">> >>] }

NoVars == [input |-> <<>>, output |-> <<>>]

VARIABLES
  nodes,                \* the node ids in use, 1..n
  name,                 \* System.name
  subsystems_allprocs,  \* System._subsystems_allprocs, child ids in insertion order
  declared,             \* what the leaf's initialize_variables adds
  variable_promotes,    \* System._variable_promotes
  variable_renames,     \* System._variable_renames
  variable_connections, \* System._variable_connections
  nproc,                \* size of COMM_WORLD
  mpi_proc_allocator,   \* System._mpi_proc_allocator, as the block sizes it deals
  stage,                \* the setup method that ran last
  path_name,            \* [proc][node] System.path_name
  mpi_proc_range,       \* [proc][node] System._mpi_proc_range, also the comm
  subsystems_myproc,    \* [proc][node] System._subsystems_myproc, child ids
  subsystems_inds,      \* [proc][node] System._subsystems_inds, 0-based
  variable_allprocs_names,   \* [proc][node][typ]
  variable_myproc_names,     \* [proc][node][typ]
  variable_myproc_metadata,  \* [proc][node][typ], references into metadata
  metadata,                  \* [proc][reference] the metadata dictionaries
  variable_maps,             \* [proc][node][typ]
  variable_allprocs_range,   \* [proc][node][typ]
  variable_allprocs_indices, \* [proc][node][typ]
  variable_myproc_indices,   \* [proc][node][typ]
  variable_connections_indices, \* [proc][node] list of (input, output) pairs
  raised,                    \* the exception that ended setup, or "none"
  vectors,                   \* [proc][node] System._vectors, one per kind
  vector_transfers,          \* [proc][node] System._vector_transfers[None]
  vector_var_ids,            \* [proc][node] System._vector_var_ids[None]
  vector_data,               \* [proc][typ] the arrays the root's vector stores
  applied,                   \* the transfer applied last
  vec_sizes,     \* sizes of the variables a root vector holds, in registration order
  vec_var_set,   \* their varsets
  vec_range,     \* the first and last of them that the vector under test holds
  vec_data,      \* Vector._data of the root vector: one flat array per varset
  vec_views,     \* Vector._views: name -> (varset, start, stop)
  vec_indices,   \* Vector._indices: per varset, positions in the combined array
  vec_names,     \* Vector._names
  vec_idxs,      \* Vector._idxs
  array,         \* the array get_data returned last
  call_key,      \* the name the last call was made with
  result,        \* what the last call returned
  last_call,     \* the method of the vector called last
  inputs_A,      \* LinearSystemComp: inputs['A']
  inputs_b,      \* inputs['b']
  outputs_x,     \* outputs['x']
  lup,           \* LinearSystemComp._lup
  factored,      \* the matrix that _lup is the factorization of
  d_outputs_x,   \* d_outputs['x']
  d_residuals_x, \* d_residuals['x']
  mode,          \* the mode of the last solve_linear or _mat_vec_prod
  d_inputs_A,    \* d_inputs['A']
  d_inputs_b,    \* d_inputs['b']
  d_names,       \* Vector._names of d_inputs and of d_outputs
  seed,          \* the seeds dx, dA, db and w of the two products
  forward,       \* d_residuals['x'] as the forward product left it
  residuals_x,   \* residuals['x']
  lsc_call,      \* the method of the LinearSystemComp called last
  tree_call,     \* the last get_subsystem call: process, node, name, result
  jacobian,      \* [proc][node] System._jacobian, the Jacobian object
  jac_top,       \* [proc][Jacobian] its _top_name, _top_system, _assembler
  jac_count,     \* the number of set_jacobian calls made
  vector_names,  \* [proc][node][kind] Vector._names of the node's vectors
  residual_data, \* [proc] the arrays the root's residual vector stores
  gv_call,       \* the last _get_vectors call: process, node, range, mode
  collectives    \* [proc] the collective calls made in setup, in order

config_vars == <<nodes, name, subsystems_allprocs, declared, variable_promotes,
                 variable_renames, variable_connections, nproc,
                 mpi_proc_allocator>>
proc_vars == <<path_name, mpi_proc_range, subsystems_myproc, subsystems_inds>>
name_vars == <<variable_allprocs_names, variable_myproc_names,
               variable_myproc_metadata, variable_maps>>
index_vars == <<variable_allprocs_range, variable_allprocs_indices,
                variable_myproc_indices>>
conn_vars == <<variable_connections_indices, raised>>
vector_vars == <<vectors, vector_transfers, vector_var_ids, vector_data,
                 applied>>
view_vars == <<vec_sizes, vec_var_set, vec_range, vec_data, vec_views,
               vec_indices, vec_names, vec_idxs, array, call_key, result,
               last_call>>
lsc_vars == <<inputs_A, inputs_b, outputs_x, lup, factored, d_outputs_x,
              d_residuals_x, mode>>
mvp_vars == <<d_inputs_A, d_inputs_b, d_names, seed, forward>>
res_vars == <<residuals_x, lsc_call>>
tree_vars == <<tree_call, jacobian, jac_top, jac_count>>
gv_vars == <<vector_names, residual_data, gv_call>>
vars == <<config_vars, stage, proc_vars, name_vars, metadata, index_vars,
          conn_vars, vector_vars, view_vars, lsc_vars, mvp_vars, res_vars,
          tree_vars, gv_vars, collectives>>

Procs == 0..(nproc - 1)

----------------------------------------------------------------------------
\* Sequence helpers.

RECURSIVE SumSeq(_)
SumSeq(s) == IF s = <<>> THEN 0 ELSE Head(s) + SumSeq(Tail(s))

\* Sum of the first k entries.
PrefixSum(s, k) == SumSeq(SubSeq(s, 1, k))

RECURSIVE Concat(_)
Concat(ss) == IF ss = <<>> THEN <<>> ELSE Head(ss) \o Concat(Tail(ss))

\* numpy.arange(a, b)
Arange(a, b) == [i \in 1..(IF b > a THEN b - a ELSE 0) |-> a + i - 1]

Max(S) == CHOOSE i \in S : \A j \in S : j <= i

SeqToSet(s) == {s[i] : i \in 1..Len(s)}

\* list.index(x): the first position of x, 0-based; 0 - 1 stands for ValueError.
ListIndex(s, x) ==
  IF \E i \in 1..Len(s) : s[i] = x
  THEN (CHOOSE i \in 1..Len(s) : s[i] = x /\ \A j \in 1..(i - 1) : s[j] # x) - 1
  ELSE 0 - 1

\* The sequences of `parts` positive integers that sum to `total`.
RECURSIVE Compositions(_, _)
Compositions(total, parts) ==
  IF parts = 0 THEN (IF total = 0 THEN {<<>>} ELSE {})
  ELSE UNION { { <<k>> \o r : r \in Compositions(total - k, parts - 1) }
               : k \in 1..(total - parts + 1) }

----------------------------------------------------------------------------
\* The process allocator (openmdao/proc_allocators, not part of the sources
\* at hand): it deals the proc range [lo, hi) of a node to its nsub children
\* in contiguous blocks.  With at least as many procs as children, child i
\* gets blocks[i] procs and every proc holds one child; with fewer procs
\* than children, the proc of rank r gets blocks[r] consecutive children and
\* a communicator of its own.

Blocks(nsub, np) ==
  IF np >= nsub THEN Compositions(np, nsub) ELSE Compositions(nsub, np)

\* Returns (sub_inds, sub_proc_range) on the process p; sub_comm is the
\* communicator of the procs in sub_proc_range.
proc_allocator_call(blocks, nsub, p, proc_range) ==
  LET lo == proc_range[1]
      np == proc_range[2] - proc_range[1]
      r == p - lo
  IN IF np >= nsub
     THEN LET i == CHOOSE k \in 1..nsub :
                     /\ PrefixSum(blocks, k - 1) <= r
                     /\ r < PrefixSum(blocks, k)
          IN [sub_inds |-> <<i - 1>>,
              sub_proc_range |-> <<lo + PrefixSum(blocks, i - 1),
                                   lo + PrefixSum(blocks, i)>>]
     ELSE [sub_inds |-> Arange(PrefixSum(blocks, r), PrefixSum(blocks, r + 1)),
           sub_proc_range |-> <<p, p + 1>>]

\* Every way of choosing the blocks of the groups below (and at) node n when
\* n is given np procs: a set of sets of <<group, blocks>>.
RECURSIVE AllocChoices(_, _)
RECURSIVE AllocChoicesSubs(_, _, _, _)
AllocChoices(n, np) ==
  LET kids == subsystems_allprocs[n]
  IN IF kids = <<>> THEN {{}}
     ELSE UNION { { {<<n, b>>} \cup rest :
                    rest \in AllocChoicesSubs(kids, 1, b, np) }
                  : b \in Blocks(Len(kids), np) }
AllocChoicesSubs(kids, i, b, np) ==
  IF i > Len(kids) THEN {{}}
  ELSE LET npi == IF np >= Len(kids) THEN b[i] ELSE 1
       IN { a \cup rest : a \in AllocChoices(kids[i], npi),
                          rest \in AllocChoicesSubs(kids, i + 1, b, np) }

----------------------------------------------------------------------------
\* Communicators.  The comm of a node is the group of the procs of its
\* _mpi_proc_range, ranked in that order.

comm_size(p, n) == mpi_proc_range[p][n][2] - mpi_proc_range[p][n][1]
comm_rank(p, n) == p - mpi_proc_range[p][n][1]
comm_procs(p, n) ==
  [i \in 1..comm_size(p, n) |-> mpi_proc_range[p][n][1] + i - 1]

----------------------------------------------------------------------------
\* System._setup_processors, on process p: the attributes of the nodes as a
\* record st of functions of the node.

RECURSIVE setup_processors(_, _, _, _, _)
RECURSIVE setup_processors_subs(_, _, _, _, _, _)

\* As setup_processors, with the recursion into every child.
setup_processors_all_children(p, n, path, proc_range, st) ==
  LET pn == IF path # <<>> THEN path \o <<".">> \o name[n] ELSE name[n]
      st1 == [st EXCEPT !.path_name[n] = pn, !.mpi_proc_range[n] = proc_range]
      nsub == Len(subsystems_allprocs[n])
  IN IF nsub > 0
     THEN LET tmp == proc_allocator_call(mpi_proc_allocator[n], nsub, p,
                                         proc_range)
              myproc == [i \in 1..Len(tmp.sub_inds) |->
                           subsystems_allprocs[n][tmp.sub_inds[i] + 1]]
              st2 == [st1 EXCEPT !.subsystems_myproc[n] = myproc,
                                 !.subsystems_inds[n] = tmp.sub_inds]
          IN setup_processors_subs(p, subsystems_allprocs[n], 1, pn,
                                   tmp.sub_proc_range, st2)
     ELSE st1

setup_processors(p, n, path, proc_range, st) ==
  LET pn == IF path # <<>> THEN path \o <<".">> \o name[n] ELSE name[n]
      st1 == [st EXCEPT !.path_name[n] = pn, !.mpi_proc_range[n] = proc_range]
      nsub == Len(subsystems_allprocs[n])
  IN IF nsub > 0
     THEN LET tmp == proc_allocator_call(mpi_proc_allocator[n], nsub, p,
                                         proc_range)
              myproc == [i \in 1..Len(tmp.sub_inds) |->
                           subsystems_allprocs[n][tmp.sub_inds[i] + 1]]
              st2 == [st1 EXCEPT !.subsystems_myproc[n] = myproc,
                                 !.subsystems_inds[n] = tmp.sub_inds]
          IN setup_processors_subs(p, myproc, 1, pn, tmp.sub_proc_range, st2)
     ELSE st1
setup_processors_subs(p, myproc, i, path, sub_proc_range, st) ==
  IF i > Len(myproc) THEN st
  ELSE setup_processors_subs(p, myproc, i + 1, path, sub_proc_range,
         setup_processors(p, myproc[i], path, sub_proc_range, st))

\* The attributes System.__init__ sets, for every node.
init_proc_attrs ==
  [path_name |-> [n \in NodeIds |-> <<>>],
   mpi_proc_range |-> [n \in NodeIds |-> <<0, 1>>],
   subsystems_myproc |-> [n \in NodeIds |-> <<>>],
   subsystems_inds |-> [n \in NodeIds |-> <<>>]]

\* The nodes that the recursion from the root reaches on process p.
RECURSIVE resident_below(_, _)
resident_below(p, n) ==
  {n} \cup UNION { resident_below(p, subsystems_myproc[p][n][i])
                   : i \in 1..Len(subsystems_myproc[p][n]) }
resident(p) == resident_below(p, 1)

----------------------------------------------------------------------------
\* System.get_subsystem and System.set_jacobian, on process p.

\* return None
NoSystem == 0

RECURSIVE get_subsystem(_, _, _)
RECURSIVE get_subsystem_subs(_, _, _, _)

\* As the loop of get_subsystem, returning what the first child returns.
get_subsystem_first_child(p, myproc, i, nm) ==
  IF i > Len(myproc) THEN NoSystem
  ELSE get_subsystem(p, myproc[i], nm)

\* get_subsystem(name) called on node n: the node returned, or NoSystem.
get_subsystem(p, n, nm) ==
  IF nm = path_name[p][n] THEN n
  ELSE get_subsystem_subs(p, subsystems_myproc[p][n], 1, nm)

\* for subsys in self._subsystems_myproc, from the i-th on
get_subsystem_subs(p, myproc, i, nm) ==
  IF i > Len(myproc) THEN NoSystem
  ELSE LET found == get_subsystem(p, myproc[i], nm)
       IN IF found # NoSystem THEN found
          ELSE get_subsystem_subs(p, myproc, i + 1, nm)

\* Jacobian objects by identity: those the caller makes, and the
\* DefaultJacobian() that node n makes in __init__ (call 0) or in the
\* set_jacobian call number c; jacobian=None.
UserJacobians ==
  { [kind |-> "user", id |-> k, call |-> 0] : k \in 1..2 }
DefaultJacobian(n, c) == [kind |-> "default", id |-> n, call |-> c]
NoJacobian == [kind |-> "None", id |-> 0, call |-> 0]

\* self._sys_assembler: None until _setup_processors sets it.
sys_assembler(p, n) ==
  IF stage # "constructed" /\ n \in resident(p) THEN "assembler" ELSE "None"

\* The attachment point of a Jacobian that was never attached.
no_top == [top_name |-> <<>>, top_system |-> NoSystem, assembler |-> "None"]

RECURSIVE set_jacobian(_, _, _, _, _, _)
RECURSIVE set_jacobian_subs(_, _, _, _, _, _)

\* As the loop of set_jacobian, with is_top passed as True.
set_jacobian_subs_top(p, myproc, i, J, c, st) ==
  IF i > Len(myproc) THEN st
  ELSE set_jacobian_subs(p, myproc, i + 1, J, c,
                         set_jacobian(p, myproc[i], J, TRUE, c, st))

\* set_jacobian(jacobian, is_top) called on node n, in the call number c:
\* st holds the _jacobian of the nodes and the attributes of the Jacobians.
set_jacobian(p, n, J, is_top, c, st) ==
  LET st1 ==
        IF J = NoJacobian
        THEN [st EXCEPT !.jacobian[n] = DefaultJacobian(n, c)]
        ELSE LET stj == [st EXCEPT !.jacobian[n] = J]
             IN IF is_top
                THEN [stj EXCEPT !.jac_top[J] =
                        [top_name |-> path_name[p][n], top_system |-> n,
                         assembler |-> sys_assembler(p, n)]]
                ELSE stj
  IN set_jacobian_subs(p, subsystems_myproc[p][n], 1, J, c, st1)

\* for subsys in self._subsystems_myproc: subsys.set_jacobian(jacobian,
\* False), from the i-th on
set_jacobian_subs(p, myproc, i, J, c, st) ==
  IF i > Len(myproc) THEN st
  ELSE set_jacobian_subs(p, myproc, i + 1, J, c,
                         set_jacobian(p, myproc[i], J, FALSE, c, st))

\* No call of get_subsystem was made.
no_call ==
  [op |-> "none", proc |-> 0, node |-> 0, name |-> <<>>, result |-> NoSystem]

----------------------------------------------------------------------------
\* System._get_maps.

\* fnmatch.fnmatchcase for patterns made of literal characters, '*' and '?'.
RECURSIVE fnmatchcase(_, _)
fnmatchcase(s, pat) ==
  IF pat = <<>> THEN s = <<>>
  ELSE IF Head(pat) = "*"
       THEN \/ fnmatchcase(s, Tail(pat))
            \/ (s # <<>> /\ fnmatchcase(Tail(s), pat))
       ELSE /\ s # <<>>
            /\ (Head(pat) = "?" \/ Head(pat) = Head(s))
            /\ fnmatchcase(Tail(s), Tail(pat))

\* '*' in n or '?' in n
is_pattern(n) == \E i \in 1..Len(n) : n[i] = "*" \/ n[i] = "?"

\* As get_maps, with the rename step of lines 550-552 left out.
get_maps_no_rename(sysname, promotes_all, renames_all, typ, allnames) ==
  LET gname == IF sysname # <<>> THEN sysname \o <<".">> ELSE <<>>
      names == IF promotes_all["any"] # {} THEN promotes_all["any"]
               ELSE promotes_all[typ]
      map_one(nm) ==
        IF nm \in names THEN nm
        ELSE IF \E pattern \in {n \in names : is_pattern(n)} :
                  fnmatchcase(nm, pattern) THEN nm
        ELSE gname \o nm
  IN [nm \in SeqToSet(allnames) |-> map_one(nm)]

\* _get_maps of a system called sysname with the given promotes (a record of
\* the sets 'any', 'input', 'output') and renames (a record of two functions)
\* over its list allnames of variable names of kind typ.
get_maps(sysname, promotes_all, renames_all, typ, allnames) ==
  LET gname == IF sysname # <<>> THEN sysname \o <<".">> ELSE <<>>
      promotes == promotes_all["any"]
      promotes_typ == promotes_all[typ]
      renames == renames_all[typ]
      names == IF promotes # {} THEN promotes
               ELSE IF promotes_typ # {} THEN promotes_typ
               ELSE {}
      patterns == {n \in names : is_pattern(n)}
      map_one(nm) ==
        IF nm \in names THEN nm
        ELSE IF \E pattern \in patterns : fnmatchcase(nm, pattern) THEN nm
        ELSE IF nm \in DOMAIN renames THEN renames[nm]
        ELSE IF gname # <<>> THEN gname \o nm
        ELSE nm
  IN [nm \in SeqToSet(allnames) |-> map_one(nm)]

----------------------------------------------------------------------------
\* System._setup_variables.  The recursion is bottom-up and every group whose
\* comm has more than one process all-gathers the names: the list of node n
\* on process p is computed from the lists the processes of n's comm hold
\* for their own children.

is_group(n) == Len(subsystems_allprocs[n]) > 0

\* The rank, in the sub_comm of its first local child, of process q at node n.
sub_comm_rank(q, n) == comm_rank(q, subsystems_myproc[q][n][1])

RECURSIVE allprocs_names(_, _, _)
RECURSIVE local_names(_, _, _)
\* _variable_maps[typ] of child on process p, as set in the parent's loop.
maps_of(p, child, typ) ==
  get_maps(name[child], variable_promotes[child], variable_renames[child],
           typ, allprocs_names(p, child, typ))
\* The names process p assembles from its local children, before the gather;
\* this is also _variable_myproc_names.
local_names(p, n, typ) ==
  IF ~is_group(n) THEN declared[n][typ]
  ELSE LET myproc == subsystems_myproc[p][n]
           of(child) == LET sub == allprocs_names(p, child, typ)
                            m == maps_of(p, child, typ)
                        IN [k \in 1..Len(sub) |-> m[sub[k]]]
       IN Concat([i \in 1..Len(myproc) |-> of(myproc[i])])
\* As allprocs_names, with the all-gather of lines 276-289 left out.
allprocs_names_no_gather(p, n, typ) == local_names(p, n, typ)
\* _variable_allprocs_names[typ] of node n on process p.
allprocs_names(p, n, typ) ==
  IF is_group(n) /\ comm_size(p, n) > 1
  THEN LET procs == comm_procs(p, n)
           raw == [i \in 1..Len(procs) |->
                     IF sub_comm_rank(procs[i], n) = 0
                     THEN local_names(procs[i], n, typ)
                     ELSE <<>>]
       IN Concat(raw)
  ELSE local_names(p, n, typ)

\* A metadata dictionary is an object shared by the lists that hold it: it is
\* named by the leaf that declared it, the kind and the position, and the
\* lists hold these references.
meta_ref(leaf, typ, k) == <<leaf, typ, k>>
\* Python's None and a list of indices, as values of one type.
None == [is_None |-> TRUE, list |-> <<>>]
index_list(l) == [is_None |-> FALSE, list |-> l]

\* The dictionary add_input / add_output creates.
new_metadata == [indices |-> None, shape |-> <<1>>]

\* _variable_myproc_metadata[typ] of node n on process p (lines 271-273).
RECURSIVE myproc_metadata(_, _, _)
myproc_metadata(p, n, typ) ==
  IF ~is_group(n)
  THEN [k \in 1..Len(declared[n][typ]) |-> meta_ref(n, typ, k)]
  ELSE LET myproc == subsystems_myproc[p][n]
       IN Concat([i \in 1..Len(myproc) |-> myproc_metadata(p, myproc[i], typ)])

----------------------------------------------------------------------------
\* System._setup_variable_indices, on process p.  `index` is the dictionary
\* of running counters the caller passes by reference: the operator returns
\* the attributes st and the counters as the call leaves them.

\* nvar_allprocs: what comm.allgather returns for node n and kind typ.
nvar_allprocs(p, n, typ) ==
  LET procs == comm_procs(p, n)
  IN [i \in 1..Len(procs) |->
        LET q == procs[i]
            subsys0 == subsystems_myproc[q][n][1]
        IN IF sub_comm_rank(q, n) = 0
           THEN Len(variable_allprocs_names[q][subsys0][typ])
           ELSE 0]

\* The offset added to index[typ] before the recursion (lines 319-333).
index_offset(p, n, typ) ==
  LET subsys0 == subsystems_myproc[p][n][1]
      iproc == comm_rank(p, n)
      nvar_myproc == Len(variable_allprocs_names[p][subsys0][typ])
  IN PrefixSum(nvar_allprocs(p, n, typ), iproc + 1) - nvar_myproc

\* The dictionary _variable_allprocs_indices[typ]: a later occurrence of a
\* name overwrites an earlier one.
indices_dict(names, lo) ==
  [nm \in SeqToSet(names) |->
     lo + (CHOOSE i \in 1..Len(names) :
             names[i] = nm /\ \A j \in (i + 1)..Len(names) : names[j] # nm) - 1]

\* As arange_of, with the stop of the range included.
arange_with_stop(rng) ==
  [typ \in Typs |-> Arange(rng[typ][1], rng[typ][2] + 1)]

\* If component, _variable_myproc_indices is simply an arange (lines
\* 349-351).
arange_of(rng) == [typ \in Typs |-> Arange(rng[typ][1], rng[typ][2])]

RECURSIVE setup_variable_indices(_, _, _, _)
RECURSIVE setup_variable_indices_subs(_, _, _, _, _)
setup_variable_indices(p, n, index, st) ==
  LET names == variable_allprocs_names[p][n]
      rng == [typ \in Typs |-> <<index[typ], index[typ] + Len(names[typ])>>]
      st1 == [st EXCEPT !.variable_allprocs_range[n] = rng]
      myproc == subsystems_myproc[p][n]
      st3 ==
        IF Len(myproc) > 0
        THEN LET index1 == IF comm_size(p, n) > 1
                           THEN [typ \in Typs |->
                                   index[typ] + index_offset(p, n, typ)]
                           ELSE index
                 r == setup_variable_indices_subs(p, myproc, 1, index1, st1)
                 st2 == r.st
             IN [st2 EXCEPT !.variable_myproc_indices[n] =
                   [typ \in Typs |->
                      Concat([i \in 1..Len(myproc) |->
                                st2.variable_myproc_indices[myproc[i]][typ]])]]
        ELSE [st1 EXCEPT !.variable_myproc_indices[n] = arange_of(rng)]
  IN [st |-> [st3 EXCEPT !.variable_allprocs_indices[n] =
                [typ \in Typs |-> indices_dict(names[typ], rng[typ][1])]],
      index |-> [typ \in Typs |-> rng[typ][2]]]
setup_variable_indices_subs(p, myproc, i, index, st) ==
  IF i > Len(myproc) THEN [st |-> st, index |-> index]
  ELSE LET r == setup_variable_indices(p, myproc[i], index, st)
       IN setup_variable_indices_subs(p, myproc, i + 1, r.index, r.st)

\* The attributes System.__init__ sets, for every node.
init_index_attrs ==
  [variable_allprocs_range |-> [n \in NodeIds |-> [typ \in Typs |-> <<0, 0>>]],
   variable_allprocs_indices |-> [n \in NodeIds |-> [typ \in Typs |-> <<>>]],
   variable_myproc_indices |-> [n \in NodeIds |-> [typ \in Typs |-> <<>>]]]

----------------------------------------------------------------------------
\* The hierarchies.  Node k > 1 has a parent of smaller number, so that the
\* children of a node are in insertion order when in increasing order.

\* The children of node n in increasing order, for a parent function par.
RECURSIVE children_from(_, _, _, _)
children_from(par, n, k, last) ==
  IF k > last THEN <<>>
  ELSE (IF par[k] = n THEN <<k>> ELSE <<>>) \o children_from(par, n, k + 1, last)

Trees ==
  UNION { { [n \in NodeIds |-> IF n <= last
                               THEN children_from(par, n, 2, last) ELSE <<>>]
            : par \in { f \in [2..last -> 1..last] :
                          \A k \in 2..last : f[k] < k } }
          : last \in 1..MaxTreeNodes }

\* The nodes of a tree: the root and every child.
tree_nodes(kids) ==
  {1} \cup UNION { SeqToSet(kids[n]) : n \in NodeIds }

no_promotes == [any |-> {}, input |-> {}, output |-> {}]
no_renames == [input |-> <<>>, output |-> <<>>]

\* A name that no variable has.
no_such_name == <<"q">>
----------------------------------------------------------------------------
\* vectors/vector.py: one vector of one kind on one process.  The subclass
\* methods _initialize_data and _initialize_views are not in src/; they
\* follow the specification's Vector & Varset Partitioner: one flat array
\* per varset at the root, a view per variable at an offset that is the sum
\* of the sizes of the variables of its varset registered before it, and a
\* sub-vector holding the slices of the root's arrays of its own variables.

MaxVars == 3
Sizes == {1, 2}
VarSets == {0, 1}
VecValues == {7}
VecVarNames == << <<"x">>, <<"y">>, <<"z">>, <<"w">>, <<"v">> >>

system_vars == <<config_vars, stage, proc_vars, name_vars, metadata,
                 index_vars, variable_connections_indices, vector_vars,
                 collectives, tree_vars, gv_vars>>

zeros(n) == [i \in 1..n |-> 0]

\* The number of elements that variables first..last have in varset s.
size_in_set(sizes, var_set, first, last, s) ==
  SumSeq([i \in 1..(IF last >= first THEN last - first + 1 ELSE 0) |->
            IF var_set[first + i - 1] = s THEN sizes[first + i - 1] ELSE 0])

\* As initialize_views, with every view at the start of its array.
initialize_views_at_start(sizes, var_set, range) ==
  [nm \in {VecVarNames[k] : k \in range[1]..range[2]} |->
     LET k == CHOOSE j \in range[1]..range[2] : VecVarNames[j] = nm
     IN [var_set |-> var_set[k], start |-> 0, stop |-> sizes[k]]]

\* _initialize_views: the view of each variable of the vector, as the part
\* [start, stop) of the root's array of its varset.
initialize_views(sizes, var_set, range) ==
  [nm \in {VecVarNames[k] : k \in range[1]..range[2]} |->
     LET k == CHOOSE j \in range[1]..range[2] : VecVarNames[j] = nm
         start == size_in_set(sizes, var_set, 1, k - 1, var_set[k])
     IN [var_set |-> var_set[k], start |-> start, stop |-> start + sizes[k]]]

\* _idxs: 0 for a variable of size 1, which is read as a number, and
\* slice(None) for the others.
initialize_idxs(sizes, range) ==
  [nm \in {VecVarNames[k] : k \in range[1]..range[2]} |->
     LET k == CHOOSE j \in range[1]..range[2] : VecVarNames[j] = nm
     IN IF sizes[k] = 1 THEN "0" ELSE "slice(None)"]

\* _initialize_data at the root: zeros, one array per varset.
initialize_root_data(sizes, var_set) ==
  [s \in VarSets |-> zeros(size_in_set(sizes, var_set, 1, Len(sizes), s))]

\* _indices: for each varset, where the elements of the vector's part of
\* the array lie in the array that combines the vector's variables in
\* registration order.
initialize_indices(sizes, var_set, range) ==
  [s \in VarSets |->
     Concat([i \in 1..(range[2] - range[1] + 1) |->
               LET k == range[1] + i - 1
                   pos == SumSeq([j \in 1..(i - 1) |-> sizes[range[1] + j - 1]])
               IN IF var_set[k] = s THEN Arange(pos, pos + sizes[k])
                  ELSE <<>>])]

\* The part of the root's array of varset s that the vector holds.
slice_of(s) ==
  << size_in_set(vec_sizes, vec_var_set, 1, vec_range[1] - 1, s),
     size_in_set(vec_sizes, vec_var_set, 1, vec_range[2], s) >>

\* Vector._data of the vector: the slices of the root's arrays `data`.
own_data(data) ==
  [s \in VarSets |-> SubSeq(data[s], slice_of(s)[1] + 1, slice_of(s)[2])]

\* Assigning through the slices writes the root's arrays.
write_own(data, own) ==
  [s \in VarSets |->
     [j \in 1..Len(data[s]) |->
        IF slice_of(s)[1] < j /\ j <= slice_of(s)[2]
        THEN own[s][j - slice_of(s)[1]] ELSE data[s][j]]]

\* sizes of line 122: the sizes of the vector's variables.
own_sizes ==
  [i \in 1..(vec_range[2] - vec_range[1] + 1) |-> vec_sizes[vec_range[1] + i - 1]]

\* As get_data, without the loop of lines 125-126.
get_data_zeros(own, indices, sizes) == zeros(SumSeq(sizes))

\* Vector.get_data(array=None): zeros, then array[self._indices[ind]] = data
\* for each varset in turn; of two writes to one place the later one stays.
get_data(own, indices, sizes) ==
  [pos \in 1..SumSeq(sizes) |->
     LET hits == { h \in VarSets \X (1..SumSeq(sizes)) :
                     /\ h[2] <= Len(indices[h[1]])
                     /\ indices[h[1]][h[2]] = pos - 1 }
         s == Max({h[1] : h \in hits})
         i == Max({h[2] : h \in {g \in hits : g[1] = s}})
     IN IF hits = {} THEN 0 ELSE own[s][i]]

\* Vector.set_data(array): data[:] = array[self._indices[ind]].
set_data(own, indices, arr) ==
  [s \in VarSets |-> [i \in 1..Len(own[s]) |-> arr[indices[s][i] + 1]]]

\* The array a view covers.
view_array(data, view) == SubSeq(data[view.var_set], view.start + 1, view.stop)

\* The names that calls are made with: the first and the last variable of
\* the vector and a name that no variable has.
call_keys == {VecVarNames[vec_range[1]], VecVarNames[vec_range[2]], no_such_name}

\* What a call that returns nothing returns.
no_result == [none |-> TRUE]

InitNoVector ==
  /\ vec_sizes = <<>>
  /\ vec_var_set = <<>>
  /\ vec_range = <<1, 0>>
  /\ vec_data = <<>>
  /\ vec_views = <<>>
  /\ vec_indices = <<>>
  /\ vec_names = {}
  /\ vec_idxs = <<>>
  /\ array = <<>>
  /\ call_key = <<>>
  /\ result = no_result
  /\ last_call = "none"

----------------------------------------------------------------------------

----------------------------------------------------------------------------
\* components/linear_system_comp.py: LinearSystemComp with size 3.  Vectors
\* and matrix rows are tuples of integers; scipy.linalg.lu_factor and
\* lu_solve are the LAPACK routines getrf and getrs: Gaussian elimination
\* with row exchanges, and the two triangular solves.

Rows == 1..3

abs(a) == IF a < 0 THEN 0 - a ELSE a

\* a / b for b that divides a.
div(a, b) == IF b < 0 THEN (0 - a) \div (0 - b) ELSE a \div b

eye == [i \in Rows |-> [j \in Rows |-> IF i = j THEN 1 ELSE 0]]

\* The matrices A: the identity, two triangular ones, an exchange of rows
\* and a matrix that needs a row exchange; in each the elimination meets
\* pivots 1 and -1 only, so that every quotient is an integer.
Matrices ==
  { eye,
    << <<1, 0, 0>>, <<1, 1, 0>>, <<0, 1, 1>> >>,
    << <<1, 1, 0>>, <<0, 1, 1>>, <<0, 0, 1>> >>,
    << <<0, 1, 0>>, <<0, 0, 1>>, <<1, 0, 0>> >>,
    << <<0, 1, 1>>, <<-1, 1, 0>>, <<1, 0, 0>> >> }

\* The right-hand sides of the linear solves.
RhsVectors == { <<1, 0, 0>>, <<1, 2, 3>> }

\* inputs['b']: the value of add_input, and another.
BVectors == { <<1, 1, 1>>, <<1, 2, 3>> }

\* mode: 'fwd', 'rev', and a string that is neither.
Modes == {"fwd", "rev", "other"}

transpose(M) == [i \in Rows |-> [j \in Rows |-> M[j][i]]]

\* M.dot(x)
dot(M, x) == [i \in Rows |-> SumSeq([j \in Rows |-> M[i][j] * x[j]])]

swap(s, i, j) ==
  [k \in Rows |-> IF k = i THEN s[j] ELSE IF k = j THEN s[i] ELSE s[k]]

\* One step of getrf at column k: the first row at or below the diagonal
\* with the largest entry comes to row k, and the rows below are reduced,
\* the multipliers kept in column k.
RECURSIVE getrf(_, _, _)
getrf(M, piv, k) ==
  IF k > 3 THEN [lu |-> M, piv |-> piv]
  ELSE LET big == Max({abs(M[i][k]) : i \in k..3})
           r == CHOOSE i \in k..3 :
                  /\ abs(M[i][k]) = big
                  /\ \A j \in k..(i - 1) : abs(M[j][k]) # big
           S == swap(M, k, r)
           R == [i \in Rows |-> [j \in Rows |->
                   IF i <= k \/ j < k \/ S[k][k] = 0 THEN S[i][j]
                   ELSE IF j = k THEN div(S[i][k], S[k][k])
                   ELSE S[i][j] - div(S[i][k], S[k][k]) * S[k][j]]]
       IN getrf(R, [piv EXCEPT ![k] = r], k + 1)

\* scipy.linalg.lu_factor(a): the factors L and U in one matrix, and the
\* row exchanges.
lu_factor(a) == getrf(a, <<1, 2, 3>>, 1)

\* The exchanges piv applied to b in order, or undone in reverse order.
RECURSIVE exchange(_, _, _, _)
exchange(b, piv, k, step) ==
  IF k < 1 \/ k > 3 THEN b
  ELSE exchange(swap(b, k, piv[k]), piv, k + step, step)

\* scipy.linalg.lu_solve((lu, piv), b, trans): solves a x = b for trans 0
\* and transpose(a) x = b for trans 1.
lu_solve(lu_and_piv, b, trans) ==
  LET lu == lu_and_piv.lu
      piv == lu_and_piv.piv
  IN IF trans = 0
     THEN LET c == exchange(b, piv, 1, 1)
              y[i \in Rows] ==
                c[i] - SumSeq([j \in 1..(i - 1) |-> lu[i][j] * y[j]])
              x[i \in Rows] ==
                div(y[i] - SumSeq([j \in 1..(3 - i) |->
                                     lu[i][i + j] * x[i + j]]),
                    lu[i][i])
          IN [i \in Rows |-> x[i]]
     ELSE LET y[i \in Rows] ==
                div(b[i] - SumSeq([j \in 1..(i - 1) |-> lu[j][i] * y[j]]),
                    lu[i][i])
              z[i \in Rows] ==
                y[i] - SumSeq([j \in 1..(3 - i) |-> lu[i + j][i] * z[i + j]])
          IN exchange([i \in Rows |-> z[i]], piv, 3, 0 - 1)

\* self._lup = None
no_lup == [lu |-> <<>>, piv |-> <<>>]

\* As solve_linear, with the solve never transposed.
solve_linear_no_trans(d_out, d_res, m, lu_and_piv) ==
  IF m = "fwd"
  THEN [d_outputs |-> lu_solve(lu_and_piv, d_res, 0), d_residuals |-> d_res]
  ELSE [d_outputs |-> d_out, d_residuals |-> lu_solve(lu_and_piv, d_out, 0)]

\* LinearSystemComp.solve_linear(d_outputs, d_residuals, mode): the two
\* vectors' 'x' as the call leaves them.
solve_linear(d_out, d_res, m, lu_and_piv) ==
  LET t == IF m = "fwd" THEN 0 ELSE 1
  IN IF m = "fwd"
     THEN [d_outputs |-> lu_solve(lu_and_piv, d_res, t), d_residuals |-> d_res]
     ELSE [d_outputs |-> d_out, d_residuals |-> lu_solve(lu_and_piv, d_out, t)]

\* numpy.outer(a, b)
outer(a, b) == [i \in Rows |-> [j \in Rows |-> a[i] * b[j]]]

zero_matrix == [i \in Rows |-> [j \in Rows |-> 0]]

\* a + b and a - b of two arrays of one shape.
plus(a, b) == [i \in Rows |-> a[i] + b[i]]
minus(a, b) == [i \in Rows |-> a[i] - b[i]]
plus_matrix(M, N) == [i \in Rows |-> plus(M[i], N[i])]

\* The derivative vectors of one call of apply_linear.
d_vectors(dA, db, dx, dr) ==
  [d_inputs_A |-> dA, d_inputs_b |-> db, d_outputs_x |-> dx,
   d_residuals_x |-> dr]

\* As _mat_vec_prod, with the outer product of the reverse mode not
\* transposed.
mat_vec_prod_no_T(A, x, dA, db, dx, dr, names, m) ==
  IF m = "fwd"
  THEN LET r1 == IF "x" \in names.outputs THEN plus(dr, dot(A, dx)) ELSE dr
           r2 == IF "A" \in names.inputs THEN plus(r1, dot(dA, x)) ELSE r1
           r3 == IF "b" \in names.inputs THEN minus(r2, db) ELSE r2
       IN d_vectors(dA, db, dx, r3)
  ELSE IF m = "rev"
  THEN d_vectors(
         IF "A" \in names.inputs
         THEN plus_matrix(dA, outer(x, dr)) ELSE dA,
         IF "b" \in names.inputs THEN minus(db, dr) ELSE db,
         IF "x" \in names.outputs
         THEN plus(dx, dot(transpose(A), dr)) ELSE dx,
         dr)
  ELSE d_vectors(dA, db, dx, dr)

\* LinearSystemComp._mat_vec_prod(inputs, outputs, d_inputs, d_outputs,
\* d_residuals, mode): the derivative vectors as the call leaves them;
\* names are the _names of d_inputs and d_outputs.
mat_vec_prod(A, x, dA, db, dx, dr, names, m) ==
  IF m = "fwd"
  THEN LET r1 == IF "x" \in names.outputs THEN plus(dr, dot(A, dx)) ELSE dr
           r2 == IF "A" \in names.inputs THEN plus(r1, dot(dA, x)) ELSE r1
           r3 == IF "b" \in names.inputs THEN minus(r2, db) ELSE r2
       IN d_vectors(dA, db, dx, r3)
  ELSE IF m = "rev"
  THEN d_vectors(
         IF "A" \in names.inputs
         THEN plus_matrix(dA, transpose(outer(x, dr))) ELSE dA,
         IF "b" \in names.inputs THEN minus(db, dr) ELSE db,
         IF "x" \in names.outputs
         THEN plus(dx, dot(transpose(A), dr)) ELSE dx,
         dr)
  ELSE d_vectors(dA, db, dx, dr)

\* As apply_nonlinear, with b left out.
apply_nonlinear_no_b(A, b, x) == dot(A, x)

\* LinearSystemComp.apply_nonlinear(inputs, outputs, residuals): the value
\* written to residuals['x'].
apply_nonlinear(A, b, x) == minus(dot(A, x), b)

\* No seeds are set; loaded tells which product's seeds the vectors hold.
no_seed ==
  [dx |-> <<0, 0, 0>>, dA |-> zero_matrix, db |-> <<0, 0, 0>>,
   w |-> <<0, 0, 0>>, loaded |-> "none"]

\* The _names of d_inputs and d_outputs when every variable is relevant.
all_names == [inputs |-> {"A", "b"}, outputs |-> {"x"}]

\* A LinearSystemComp after initialize_variables: A the identity, b ones,
\* x twos, no factorization; the derivative vectors are zero.
InitNoLsc ==
  /\ d_inputs_A = zero_matrix
  /\ d_inputs_b = <<0, 0, 0>>
  /\ d_names = all_names
  /\ seed = no_seed
  /\ forward = <<0, 0, 0>>
  /\ residuals_x = <<0, 0, 0>>
  /\ lsc_call = "initialize_variables"
  /\ inputs_A = eye
  /\ inputs_b = <<1, 1, 1>>
  /\ outputs_x = <<2, 2, 2>>
  /\ lup = no_lup
  /\ factored = <<>>
  /\ d_outputs_x = <<0, 0, 0>>
  /\ d_residuals_x = <<0, 0, 0>>
  /\ mode = "none"

----------------------------------------------------------------------------
\* The attributes that the steps after _setup_variables set.
\* The keys of the dictionary of transfers: None, ('fwd', isub), ('rev', isub).
key(dir, isub) == [dir |-> dir, isub |-> isub]
key_None == key("None", -1)

no_vector == [system |-> 0, global_vector |-> 0]
init_vector_attrs ==
  [vectors |-> [n \in NodeIds |-> no_vector],
   vector_transfers |-> [n \in NodeIds |-> <<>>],
   vector_var_ids |-> [n \in NodeIds |-> {}]]

InitVectors ==
  /\ vectors = [p \in Procs |-> init_vector_attrs.vectors]
  /\ vector_transfers = [p \in Procs |-> init_vector_attrs.vector_transfers]
  /\ vector_var_ids = [p \in Procs |-> init_vector_attrs.vector_var_ids]
  /\ vector_data = [p \in Procs |-> [typ \in Typs |-> <<>>]]
  /\ applied = [node |-> 0, key |-> key_None]

\* self._jacobian = DefaultJacobian() of System.__init__; no Jacobian is
\* attached, no call is made.
InitNoTreeOps ==
  /\ tree_call = no_call
  /\ jacobian = [p \in Procs |-> [n \in NodeIds |-> DefaultJacobian(n, 0)]]
  /\ jac_top = [p \in Procs |-> [J \in UserJacobians |-> no_top]]
  /\ jac_count = 0

\* self._names = self._views of Vector.__init__: every view is visible; no
\* residual storage yet, and no _get_vectors call made.
Kinds == {"input", "output", "residual"}
views == [restricted |-> FALSE, names |-> {}]
no_gv_call == [proc |-> -1, node |-> 0, var_ind_range |-> <<0, 0>>,
               mode |-> "none"]
InitNoGetVectors ==
  /\ vector_names = [p \in Procs |-> [n \in NodeIds |-> [k \in Kinds |-> views]]]
  /\ residual_data = [p \in Procs |-> <<>>]
  /\ gv_call = no_gv_call

InitLater ==
  /\ InitNoTreeOps
  /\ InitNoGetVectors
  /\ variable_myproc_metadata = [p \in Procs |-> [n \in NodeIds |-> NoVars]]
  /\ metadata = [p \in Procs |-> <<>>]
  /\ variable_allprocs_range =
       [p \in Procs |-> init_index_attrs.variable_allprocs_range]
  /\ variable_allprocs_indices =
       [p \in Procs |-> init_index_attrs.variable_allprocs_indices]
  /\ variable_myproc_indices =
       [p \in Procs |-> init_index_attrs.variable_myproc_indices]
  /\ variable_connections_indices = [p \in Procs |-> [n \in NodeIds |-> <<>>]]
  /\ raised = "none"
  /\ collectives = [p \in Procs |-> <<>>]
  /\ InitVectors

InitAttrs ==
  /\ stage = "constructed"
  /\ path_name = [p \in Procs |-> init_proc_attrs.path_name]
  /\ mpi_proc_range = [p \in Procs |-> init_proc_attrs.mpi_proc_range]
  /\ subsystems_myproc = [p \in Procs |-> init_proc_attrs.subsystems_myproc]
  /\ subsystems_inds = [p \in Procs |-> init_proc_attrs.subsystems_inds]
  /\ variable_allprocs_names = [p \in Procs |-> [n \in NodeIds |-> NoVars]]
  /\ variable_myproc_names = [p \in Procs |-> [n \in NodeIds |-> NoVars]]
  /\ variable_maps = [p \in Procs |-> [n \in NodeIds |-> NoVars]]
  /\ InitLater
  /\ InitNoVector
  /\ InitNoLsc

\* A hierarchy as built before setup: the tree, what the leaves declare, the
\* number of processes and the allocation; default naming, no connections.
InitTree ==
  /\ subsystems_allprocs \in Trees
  /\ nodes = tree_nodes(subsystems_allprocs)
  /\ name = [n \in NodeIds |-> IF n = 1 THEN <<>> ELSE <<Letters[n]>>]
  /\ declared \in { d \in [NodeIds -> LeafShapes \cup {NoVars}] :
                      \A n \in NodeIds :
                        (d[n] = NoVars) <=> (n \notin nodes \/ is_group(n)) }
  /\ nproc \in 1..MaxProcs
  /\ \E choice \in AllocChoices(1, nproc) :
       mpi_proc_allocator =
         [n \in NodeIds |->
            IF \E c \in choice : c[1] = n
            THEN (CHOOSE c \in choice : c[1] = n)[2] ELSE <<>>]

Init ==
  /\ InitTree
  /\ variable_promotes = [n \in NodeIds |-> no_promotes]
  /\ variable_renames = [n \in NodeIds |-> no_renames]
  /\ variable_connections = [n \in NodeIds |-> <<>>]
  /\ InitAttrs

\* The collective calls of the setup steps on process p, in the order the
\* process makes them: each the node whose comm it is made on, what is
\* gathered, and the kind of variable.

collective(n, what, typ) == [node |-> n, what |-> what, typ |-> typ]

\* _setup_variables of node n: the recursion (lines 247-249), then in a
\* group on several processes one allgather of names per kind (line 286).
RECURSIVE variables_calls(_, _)
variables_calls(p, n) ==
  LET myproc == subsystems_myproc[p][n]
  IN Concat([i \in 1..Len(myproc) |-> variables_calls(p, myproc[i])])
     \o (IF is_group(n) /\ comm_size(p, n) > 1
         THEN [i \in 1..2 |-> collective(n, "names", TypSeq[i])]
         ELSE <<>>)

\* _setup_variable_indices of node n: with local children and several
\* processes one allgather of counts per kind (line 327), then the
\* recursion (lines 336-338).
RECURSIVE indices_calls(_, _)
indices_calls(p, n) ==
  LET myproc == subsystems_myproc[p][n]
  IN IF Len(myproc) > 0
     THEN (IF comm_size(p, n) > 1
           THEN [i \in 1..2 |-> collective(n, "nvar", TypSeq[i])]
           ELSE <<>>)
          \o Concat([i \in 1..Len(myproc) |-> indices_calls(p, myproc[i])])
     ELSE <<>>

----------------------------------------------------------------------------
\* The setup steps, each run by every process (Problem.setup calls them on
\* the root one after the other).

SetupProcessors ==
  /\ stage = "constructed"
  /\ LET res == [p \in Procs |->
                   setup_processors(p, 1, <<>>, <<0, nproc>>, init_proc_attrs)]
     IN /\ path_name' = [p \in Procs |-> res[p].path_name]
        /\ mpi_proc_range' = [p \in Procs |-> res[p].mpi_proc_range]
        /\ subsystems_myproc' = [p \in Procs |-> res[p].subsystems_myproc]
        /\ subsystems_inds' = [p \in Procs |-> res[p].subsystems_inds]
  /\ stage' = "processors"
  /\ UNCHANGED <<config_vars, name_vars, metadata, index_vars, conn_vars,
                 vector_vars,
                 view_vars, lsc_vars, mvp_vars, res_vars,
                 tree_vars, gv_vars, collectives>>

SetupVariables ==
  /\ stage = "processors"
  /\ variable_allprocs_names' =
       [p \in Procs |-> [n \in NodeIds |->
          IF n \in resident(p)
          THEN [typ \in Typs |-> allprocs_names(p, n, typ)] ELSE NoVars]]
  /\ variable_myproc_names' =
       [p \in Procs |-> [n \in NodeIds |->
          IF n \in resident(p)
          THEN [typ \in Typs |-> local_names(p, n, typ)] ELSE NoVars]]
  /\ variable_maps' =
       [p \in Procs |-> [n \in NodeIds |->
          IF n \in resident(p) /\ n # 1
          THEN [typ \in Typs |-> maps_of(p, n, typ)] ELSE NoVars]]
  /\ variable_myproc_metadata' =
       [p \in Procs |-> [n \in NodeIds |->
          IF n \in resident(p)
          THEN [typ \in Typs |-> myproc_metadata(p, n, typ)] ELSE NoVars]]
  /\ metadata' =
       [p \in Procs |->
          [ref \in UNION { SeqToSet(myproc_metadata(p, 1, typ)) : typ \in Typs }
             |-> new_metadata]]
  /\ stage' = "variables"
  /\ collectives' = [p \in Procs |->
       collectives[p] \o variables_calls(p, 1)]
  /\ UNCHANGED <<config_vars, proc_vars, index_vars, conn_vars, vector_vars,
                 view_vars, lsc_vars, mvp_vars, res_vars, tree_vars, gv_vars>>

SetupVariableIndices ==
  /\ stage = "variables"
  /\ LET res == [p \in Procs |->
                   setup_variable_indices(p, 1, [typ \in Typs |-> 0],
                                          init_index_attrs).st]
     IN /\ variable_allprocs_range' =
             [p \in Procs |-> res[p].variable_allprocs_range]
        /\ variable_allprocs_indices' =
             [p \in Procs |-> res[p].variable_allprocs_indices]
        /\ variable_myproc_indices' =
             [p \in Procs |-> res[p].variable_myproc_indices]
  /\ stage' = "indices"
  /\ collectives' = [p \in Procs |->
       collectives[p] \o indices_calls(p, 1)]
  /\ UNCHANGED <<config_vars, proc_vars, name_vars, metadata, conn_vars,
                 vector_vars,
                 view_vars, lsc_vars, mvp_vars, res_vars, tree_vars, gv_vars>>

Next ==
  \/ SetupProcessors
  \/ SetupVariables
  \/ SetupVariableIndices

Spec == Init /\ [][Next]_vars

----------------------------------------------------------------------------
\* The order of the setup steps.

Stages == <<"failed", "constructed", "processors", "variables", "indices",
            "connections", "vectors", "outputs", "transferred", "swept",
            "filled", "got">>
stage_no(s) == CHOOSE i \in 1..Len(Stages) : Stages[i] = s
reached(s) == stage_no(stage) >= stage_no(s)

\* Some process on which node n is resident.
holders(n) == {p \in Procs : n \in resident(p)}
groups == {n \in nodes : is_group(n)}

\* The name at the root of the variable that node n on process p calls nm,
\* under default naming (neither promotion nor renaming).
root_name(p, n, nm) ==
  IF path_name[p][n] = <<>> THEN nm ELSE path_name[p][n] \o <<".">> \o nm

----------------------------------------------------------------------------
\* C1: after _setup_variable_indices, for each kind the global ranges of
\* consecutive siblings are adjacent (so the ranges of any two siblings are
\* disjoint), the first child's range starts where the parent's starts and
\* the last child's range ends where the parent's ends, whichever processes
\* hold the parent and the children.
C1_SiblingRanges ==
  reached("indices") =>
    \A n \in groups : \A typ \in Typs :
      LET kids == subsystems_allprocs[n]
          rng(p, m) == variable_allprocs_range[p][m][typ]
      IN /\ \A i \in 1..(Len(kids) - 1) :
              \A p \in holders(kids[i]), q \in holders(kids[i + 1]) :
                rng(p, kids[i])[2] = rng(q, kids[i + 1])[1]
         /\ \A p \in holders(n) :
              /\ \A q \in holders(kids[1]) : rng(q, kids[1])[1] = rng(p, n)[1]
              /\ \A q \in holders(kids[Len(kids)]) :
                   rng(q, kids[Len(kids)])[2] = rng(p, n)[2]

\* C2: the global index of a variable is process-independent: two processes
\* that hold nodes containing the same variable store the same index for it
\* in _variable_allprocs_indices.
C2_ProcessIndependentIndices ==
  reached("indices") =>
    \A p \in Procs, q \in Procs : \A typ \in Typs :
      \A n \in resident(p), m \in resident(q) :
        LET dp == variable_allprocs_indices[p][n][typ]
            dq == variable_allprocs_indices[q][m][typ]
        IN p # q =>
             \A a \in DOMAIN dp, b \in DOMAIN dq :
               root_name(p, n, a) = root_name(q, m, b) => dp[a] = dq[b]

\* C3: after _setup_variables, _variable_allprocs_names of a node is the same
\* list on every process of the node's comm.
C3_SameNamesOnAllProcs ==
  reached("variables") =>
    \A p \in Procs : \A n \in resident(p) :
      \A i \in 1..comm_size(p, n) :
        LET q == comm_procs(p, n)[i]
        IN /\ n \in resident(q)
           /\ variable_allprocs_names[q][n] = variable_allprocs_names[p][n]

\* C3 witness: names are set up on two processes that hold different local
\* name lists for the root, whose global list is not empty.
C3_Witness ==
  /\ reached("variables")
  /\ nproc > 1
  /\ variable_myproc_names[0][1] # variable_myproc_names[1][1]
  /\ variable_allprocs_names[0][1]["output"] # <<>>
  /\ variable_allprocs_names[0][1]["input"] # <<>>

----------------------------------------------------------------------------
\* _get_maps on its own: a child (node 2) of the root whose name lists are
\* set, with promotion sets and renames drawn from small pools.

MaxPromotes == 2

ChildNames == <<<<"x">>, <<"y">>, <<"x", "1">>>>
PromotePool == {<<"x">>, <<"y">>, <<"*">>, <<"x", "?">>}
PromoteSets == {P \in SUBSET PromotePool : Cardinality(P) <= MaxPromotes}
RenameChoices ==
  { <<>>,
    (<<"x">> :> <<"z">>),
    (<<"x", "1">> :> <<"z">>),
    (<<"x">> :> <<"z">>) @@ (<<"y">> :> <<"x">>) }

InitMaps ==
  /\ subsystems_allprocs = [n \in NodeIds |-> IF n = 1 THEN <<2>> ELSE <<>>]
  /\ nodes = {1, 2}
  /\ name = [n \in NodeIds |-> IF n = 1 THEN <<>> ELSE <<Letters[n]>>]
  /\ declared = [n \in NodeIds |-> NoVars]
  /\ nproc = 1
  /\ mpi_proc_allocator = [n \in NodeIds |-> IF n = 1 THEN <<1>> ELSE <<>>]
  /\ \E any \in PromoteSets, pin \in PromoteSets, pout \in PromoteSets :
       variable_promotes =
         [n \in NodeIds |-> IF n = 2
                            THEN [any |-> any, input |-> pin, output |-> pout]
                            ELSE no_promotes]
  /\ \E r \in RenameChoices :
       variable_renames =
         [n \in NodeIds |-> IF n = 2 THEN [input |-> r, output |-> r]
                            ELSE no_renames]
  /\ variable_connections = [n \in NodeIds |-> <<>>]
  /\ stage = "constructed"
  /\ path_name = [p \in Procs |-> [n \in NodeIds |->
                    IF n = 2 THEN name[2] ELSE <<>>]]
  /\ mpi_proc_range = [p \in Procs |-> init_proc_attrs.mpi_proc_range]
  /\ subsystems_myproc = [p \in Procs |-> subsystems_allprocs]
  /\ subsystems_inds =
       [p \in Procs |-> [n \in NodeIds |-> IF n = 1 THEN <<0>> ELSE <<>>]]
  /\ variable_allprocs_names =
       [p \in Procs |-> [n \in NodeIds |->
          IF n = 2 THEN [typ \in Typs |-> ChildNames] ELSE NoVars]]
  /\ variable_myproc_names = variable_allprocs_names
  /\ variable_maps = [p \in Procs |-> [n \in NodeIds |-> NoVars]]
  /\ InitLater
  /\ InitNoVector
  /\ InitNoLsc

\* subsys._variable_maps[typ] = subsys._get_maps(typ), line 265.
GetMaps ==
  \E typ \in Typs :
    /\ variable_maps[0][2][typ] = <<>>
    /\ variable_maps' =
         [variable_maps EXCEPT ![0][2][typ] =
            get_maps(name[2], variable_promotes[2], variable_renames[2], typ,
                     variable_allprocs_names[0][2][typ])]
    /\ stage' = "maps"
    /\ UNCHANGED <<config_vars, proc_vars, variable_allprocs_names,
                   variable_myproc_names, variable_myproc_metadata, metadata,
                   index_vars, conn_vars, vector_vars,
                 view_vars, lsc_vars, mvp_vars, res_vars,
                 tree_vars, gv_vars, collectives>>

NextMaps == GetMaps

SpecMaps == InitMaps /\ [][NextMaps]_vars

\* The kinds for which the child's map has been computed, and the names of
\* the child of that kind.
mapped_typs == {typ \in Typs : variable_maps[0][2][typ] # <<>>}
child_names(typ) == SeqToSet(variable_allprocs_names[0][2][typ])
\* The promotion requests that apply to kind typ.
listed(typ) == variable_promotes[2]["any"] \cup variable_promotes[2][typ]
matched(nm, typ) ==
  \E pat \in listed(typ) : is_pattern(pat) /\ fnmatchcase(nm, pat)

\* C4: a name listed for promotion (for any kind or for its kind) that also
\* has a rename maps to itself.
C4_ExactPromotionBeatsRename ==
  \A typ \in mapped_typs : \A nm \in child_names(typ) :
    (nm \in listed(typ) /\ nm \in DOMAIN variable_renames[2][typ])
      => variable_maps[0][2][typ][nm] = nm

\* C5: a name matched by a wildcard promotion pattern that also has a rename
\* maps to itself.
C5_WildcardPromotionBeatsRename ==
  \A typ \in mapped_typs : \A nm \in child_names(typ) :
    (matched(nm, typ) /\ nm \in DOMAIN variable_renames[2][typ])
      => variable_maps[0][2][typ][nm] = nm

\* C6: a name that is neither listed for promotion nor matched by a pattern
\* maps to its rename if it has one, and else to child name + '.' + name.
C6_RenameElseDefault ==
  \A typ \in mapped_typs : \A nm \in child_names(typ) :
    (nm \notin listed(typ) /\ ~matched(nm, typ))
      => variable_maps[0][2][typ][nm] =
           IF nm \in DOMAIN variable_renames[2][typ]
           THEN variable_renames[2][typ][nm]
           ELSE name[2] \o <<".">> \o nm

\* C6 witness: the output map is computed, with one unpromoted name renamed
\* and another one given the default name.
C6_Witness ==
  /\ "output" \in mapped_typs
  /\ listed("output") # {}
  /\ \E a \in child_names("output"), b \in child_names("output") :
       /\ a \notin listed("output") /\ ~matched(a, "output")
       /\ b \notin listed("output") /\ ~matched(b, "output")
       /\ a \in DOMAIN variable_renames[2]["output"]
       /\ b \notin DOMAIN variable_renames[2]["output"]
       /\ variable_maps[0][2]["output"][a] = <<"z">>
       /\ variable_maps[0][2]["output"][b] = <<"A", ".">> \o b

----------------------------------------------------------------------------
\* System._setup_connections.  _variable_connections is a dictionary
\* ip_name -> (op_name, src_indices); it is modelled as the list of its items
\* in iteration order, each a record [ip_name, op_name, src_indices] with
\* src_indices None or a list of indices.

\* Line 389.
resolvable(p, n, c) ==
  /\ c.ip_name \in SeqToSet(variable_allprocs_names[p][n]["input"])
  /\ c.op_name \in SeqToSet(variable_allprocs_names[p][n]["output"])

\* Lines 390-394: the pair [ip_index, op_index].
resolve(p, n, c) ==
  << ListIndex(variable_allprocs_names[p][n]["input"], c.ip_name)
       + variable_allprocs_range[p][n]["input"][1],
     ListIndex(variable_allprocs_names[p][n]["output"], c.op_name)
       + variable_allprocs_range[p][n]["output"][1] >>

\* The pairs the loop of lines 387-394 appends for node n.
RECURSIVE own_pairs_from(_, _, _)
own_pairs_from(p, n, k) ==
  IF k > Len(variable_connections[n]) THEN <<>>
  ELSE (IF resolvable(p, n, variable_connections[n][k])
        THEN <<resolve(p, n, variable_connections[n][k])>> ELSE <<>>)
       \o own_pairs_from(p, n, k + 1)
own_pairs(p, n) == own_pairs_from(p, n, 1)

\* The list `pairs` of node n on process p when line 407 stores it.
RECURSIVE conn_pairs(_, _)
\* Lines 372-376: the pairs of the local children of which q is the root proc.
local_pairs(q, n) ==
  LET myproc == subsystems_myproc[q][n]
  IN Concat([i \in 1..Len(myproc) |->
               IF comm_rank(q, myproc[i]) = 0
               THEN conn_pairs(q, myproc[i]) ELSE <<>>])
\* Lines 378-383.
gathered_pairs(p, n) ==
  IF comm_size(p, n) > 1
  THEN LET procs == comm_procs(p, n)
       IN Concat([i \in 1..Len(procs) |-> local_pairs(procs[i], n)])
  ELSE local_pairs(p, n)
conn_pairs(p, n) == gathered_pairs(p, n) \o own_pairs(p, n)

\* Lines 396-405 for the k-th and later items of node n, on the attributes st
\* of process p: the metadata of a locally held input of a connection with
\* src_indices gets 'indices' and 'shape'.  An index past the end of the
\* metadata list raises IndexError.
RECURSIVE set_src_indices(_, _, _, _)
set_src_indices(p, n, k, st) ==
  IF k > Len(variable_connections[n]) \/ st.raised # "none" THEN st
  ELSE LET c == variable_connections[n][k]
           ip_myproc_index ==
             ListIndex(variable_myproc_names[p][n]["input"], c.ip_name)
           metas == variable_myproc_metadata[p][n]["input"]
           st1 ==
             IF ~resolvable(p, n, c) \/ c.src_indices = None THEN st
             ELSE IF ip_myproc_index < 0 THEN st
             ELSE IF ip_myproc_index >= Len(metas)
                  THEN [st EXCEPT !.raised = "IndexError"]
                  ELSE [st EXCEPT !.metadata[metas[ip_myproc_index + 1]] =
                          [indices |-> c.src_indices,
                           shape |-> <<Len(c.src_indices.list)>>]]
       IN set_src_indices(p, n, k + 1, st1)

\* _setup_connections of node n on process p, on the attributes st (the
\* lists of pairs, the metadata dictionaries and the exception raised).
RECURSIVE setup_connections(_, _, _)
RECURSIVE setup_connections_subs(_, _, _, _)
setup_connections(p, n, st) ==
  LET st1 == setup_connections_subs(p, subsystems_myproc[p][n], 1, st)
      st2 == set_src_indices(p, n, 1, st1)
  IN IF st2.raised # "none" THEN st2
     ELSE [st2 EXCEPT !.variable_connections_indices[n] = conn_pairs(p, n)]
setup_connections_subs(p, myproc, i, st) ==
  IF i > Len(myproc) \/ st.raised # "none" THEN st
  ELSE setup_connections_subs(p, myproc, i + 1,
         setup_connections(p, myproc[i], st))

\* _setup_connections of node n: the recursion (lines 373-376), on several
\* processes the allgather of pairs (line 380), then the loop of lines
\* 387-405, which may raise; an exception ends the calls of the process.
RECURSIVE connections_calls(_, _)
RECURSIVE connections_calls_subs(_, _, _, _)
connections_calls(p, n) ==
  LET subs == connections_calls_subs(p, subsystems_myproc[p][n], 1,
                                     [calls |-> <<>>, raised |-> FALSE])
      loop == set_src_indices(p, n, 1,
                [variable_connections_indices |->
                   variable_connections_indices[p],
                 metadata |-> metadata[p],
                 raised |-> "none"])
  IN IF subs.raised THEN subs
     ELSE [calls |-> subs.calls \o
                       (IF comm_size(p, n) > 1
                        THEN <<collective(n, "pairs", "both")>> ELSE <<>>),
           raised |-> loop.raised # "none"]
connections_calls_subs(p, myproc, i, acc) ==
  IF i > Len(myproc) \/ acc.raised THEN acc
  ELSE LET r == connections_calls(p, myproc[i])
       IN connections_calls_subs(p, myproc, i + 1,
            [calls |-> acc.calls \o r.calls, raised |-> r.raised])

SetupConnections ==
  /\ stage = "indices"
  /\ LET res == [p \in Procs |->
                   setup_connections(p, 1,
                     [variable_connections_indices |->
                        variable_connections_indices[p],
                      metadata |-> metadata[p],
                      raised |-> "none"])]
         failed == {p \in Procs : res[p].raised # "none"}
     IN /\ variable_connections_indices' =
             [p \in Procs |-> res[p].variable_connections_indices]
        /\ metadata' = [p \in Procs |-> res[p].metadata]
        /\ raised' = IF failed = {} THEN "none"
                     ELSE res[CHOOSE p \in failed : TRUE].raised
        /\ stage' = IF failed = {} THEN "connections" ELSE "failed"
  /\ collectives' = [p \in Procs |->
       collectives[p] \o connections_calls(p, 1).calls]
  /\ UNCHANGED <<config_vars, proc_vars, name_vars, index_vars,
                 vector_vars,
                 view_vars, lsc_vars, mvp_vars, res_vars, tree_vars, gv_vars>>

----------------------------------------------------------------------------
\* Assembler._compute_transfers and the vectors' storage are not in src/;
\* they follow the specification's Vector Partitioner and Transfer Scheduler.
\* A variable's value is an array, a list of numbers.

\* Assembler._input_var_ids on process p: for each global input index the
\* global index of the output connected to it, -1 for none, from the root's
\* resolved pairs.
input_var_ids(p) ==
  LET pairs == variable_connections_indices[p][1]
      rng == variable_allprocs_range[p][1]["input"]
  IN [ip \in rng[1]..(rng[2] - 1) |->
        LET ks == {k \in 1..Len(pairs) : pairs[k][1] = ip}
        IN IF ks = {} THEN -1 ELSE pairs[Max(ks)][2]]

in_range(i, rng) == rng[1] <= i /\ i < rng[2]

\* Assembler._compute_transfers for node n on process p: the six lists
\* [xfer_ip_inds, xfer_op_inds, fwd_xfer_ip_inds, fwd_xfer_op_inds,
\* rev_xfer_ip_inds, rev_xfer_op_inds].  The full transfer has the locally
\* held inputs of the node whose connected output is in the node's range; the
\* forward (reverse) transfer of a child has those of the child's inputs
\* whose output lies below (at or above the end of) the child's range.
compute_transfers(p, n, nsub_allprocs, var_range, myproc, inds) ==
  LET ids == input_var_ids(p)
      op_of(ip) == IF ip \in DOMAIN ids THEN ids[ip] ELSE -1
      relevant(ip) == /\ in_range(ip, var_range["input"])
                      /\ op_of(ip) # -1
                      /\ in_range(op_of(ip), var_range["output"])
      xfer_ip == SelectSeq(variable_myproc_indices[p][1]["input"], relevant)
      ops(ips) == [k \in 1..Len(ips) |-> op_of(ips[k])]
      sub_range(isub) ==
        variable_allprocs_range[p][
          myproc[CHOOSE k \in 1..Len(inds) : inds[k] = isub]]
      held(isub) == \E k \in 1..Len(inds) : inds[k] = isub
      in_sub(isub, ip) == in_range(ip, sub_range(isub)["input"])
      earlier(isub, ip) ==
        in_sub(isub, ip) /\ op_of(ip) < sub_range(isub)["output"][1]
      later(isub, ip) ==
        in_sub(isub, ip) /\ op_of(ip) >= sub_range(isub)["output"][2]
      fwd_ip == [i \in 1..nsub_allprocs |->
                   IF held(i - 1)
                   THEN LET t(ip) == earlier(i - 1, ip) IN SelectSeq(xfer_ip, t)
                   ELSE <<>>]
      rev_ip == [i \in 1..nsub_allprocs |->
                   IF held(i - 1)
                   THEN LET t(ip) == later(i - 1, ip) IN SelectSeq(xfer_ip, t)
                   ELSE <<>>]
  IN << xfer_ip, ops(xfer_ip),
        fwd_ip, [i \in 1..nsub_allprocs |-> ops(fwd_ip[i])],
        rev_ip, [i \in 1..nsub_allprocs |-> ops(rev_ip[i])] >>

----------------------------------------------------------------------------
\* Transfer.__init__ and System._get_transfers.

Transfer(ip_inds, op_inds) == [ip_inds |-> ip_inds, op_inds |-> op_inds]


get_transfers(p, n) ==
  LET nsub_allprocs == Len(subsystems_allprocs[n])
      xfer_indices ==
        compute_transfers(p, n, nsub_allprocs, variable_allprocs_range[p][n],
                          subsystems_myproc[p][n], subsystems_inds[p][n])
      xfer_ip_inds == xfer_indices[1]
      xfer_op_inds == xfer_indices[2]
      fwd_xfer_ip_inds == xfer_indices[3]
      fwd_xfer_op_inds == xfer_indices[4]
      rev_xfer_ip_inds == xfer_indices[5]
      rev_xfer_op_inds == xfer_indices[6]
      keys == {key_None}
              \cup {key("fwd", isub) : isub \in 0..(Len(fwd_xfer_ip_inds) - 1)}
              \cup {key("rev", isub) : isub \in 0..(Len(rev_xfer_ip_inds) - 1)}
  IN [k \in keys |->
        IF k = key_None THEN Transfer(xfer_ip_inds, xfer_op_inds)
        ELSE IF k.dir = "fwd"
             THEN Transfer(fwd_xfer_ip_inds[k.isub + 1],
                           fwd_xfer_op_inds[k.isub + 1])
             ELSE Transfer(rev_xfer_ip_inds[k.isub + 1],
                           rev_xfer_op_inds[k.isub + 1])]

----------------------------------------------------------------------------
\* Vector.__init__, Vector._create_subvector and System._setup_vector.

\* The vector of a system; the root's is its own global vector.
Vector(system, global_vector) ==
  [system |-> system,
   global_vector |-> IF global_vector = 0 THEN system ELSE global_vector]

\* As create_subvector, with no global vector handed on.
create_subvector_no_global(vec, system) == Vector(system, 0)

\* Lines 92-93.
create_subvector(vec, system) == Vector(system, vec.global_vector)

\* _setup_vector of node n on process p with the vector `vec` of each kind
\* and the relevant variables vector_var_ids, on the attributes st.
RECURSIVE setup_vector(_, _, _, _, _)
RECURSIVE setup_vector_subs(_, _, _, _, _, _)
setup_vector(p, n, vec, var_ids, st) ==
  LET st1 == [st EXCEPT !.vectors[n] = vec,
                        !.vector_transfers[n] = get_transfers(p, n),
                        !.vector_var_ids[n] = var_ids]
  IN setup_vector_subs(p, subsystems_myproc[p][n], 1, vec, var_ids, st1)
setup_vector_subs(p, myproc, i, vec, var_ids, st) ==
  IF i > Len(myproc) THEN st
  ELSE setup_vector_subs(p, myproc, i + 1, vec, var_ids,
         setup_vector(p, myproc[i], create_subvector(vec, myproc[i]),
                      var_ids, st))


\* The storage the root's vector of kind typ allocates on process p: zeros,
\* one array for each locally held variable, of the shape in its metadata.
initialize_data(p, typ) ==
  LET metas == variable_myproc_metadata[p][1][typ]
  IN [k \in 1..Len(metas) |->
        [i \in 1..metadata[p][metas[k]].shape[1] |-> 0]]

\* The root's vectors are made and handed to the root's _setup_vector with
\* every output relevant.
SetupVector ==
  /\ stage = "connections"
  /\ LET rng(p) == variable_allprocs_range[p][1]["output"]
         res == [p \in Procs |->
                   setup_vector(p, 1, Vector(1, 0),
                                rng(p)[1]..(rng(p)[2] - 1),
                                init_vector_attrs)]
     IN /\ vectors' = [p \in Procs |-> res[p].vectors]
        /\ vector_transfers' = [p \in Procs |-> res[p].vector_transfers]
        /\ vector_var_ids' = [p \in Procs |-> res[p].vector_var_ids]
  /\ vector_data' = [p \in Procs |-> [typ \in Typs |-> initialize_data(p, typ)]]
  /\ stage' = "vectors"
  /\ UNCHANGED <<config_vars, proc_vars, name_vars, metadata, index_vars,
                 conn_vars, applied,
                 view_vars, lsc_vars, mvp_vars, res_vars,
                 tree_vars, gv_vars, collectives>>

----------------------------------------------------------------------------
\* Values and the application of a transfer.

\* The values the outputs are given: the same everywhere, or one per leaf.
OutputChoices ==
  { [n \in NodeIds |-> 7], [n \in NodeIds |-> 10 + n] }

\* Every output of every leaf gets a value, on each process that holds it.
SetOutputs ==
  /\ stage = "vectors"
  /\ \E value \in OutputChoices :
       vector_data' =
         [p \in Procs |->
            [vector_data[p] EXCEPT !["output"] =
               [k \in 1..Len(vector_data[p]["output"]) |->
                  [i \in 1..Len(vector_data[p]["output"][k]) |->
                     value[variable_myproc_metadata[p][1]["output"][k][1]]]]]]
  /\ stage' = "outputs"
  /\ UNCHANGED <<config_vars, proc_vars, name_vars, metadata, index_vars,
                 conn_vars, vectors, vector_transfers, vector_var_ids,
                 applied,
                 view_vars, lsc_vars, mvp_vars, res_vars,
                 tree_vars, gv_vars, collectives>>

\* The processes that store the output with global index op.
owners(op) ==
  {q \in Procs : op \in SeqToSet(variable_myproc_indices[q][1]["output"])}

\* The array that the storage `data` has on q for the output with global
\* index op.
output_array(data, q, op) ==
  data[q]["output"][
    ListIndex(variable_myproc_indices[q][1]["output"], op) + 1]

\* What a forward application of transfer t on process p leaves in the input
\* storage of `data`: slot k receives the array of the output paired with it,
\* taken from process pick[op], or the entries the input's 'indices' select.
transfer_call_fwd(data, p, t, pick) ==
  LET ip_ids == variable_myproc_indices[p][1]["input"]
      metas == variable_myproc_metadata[p][1]["input"]
      js(k) == {j \in 1..Len(t.ip_inds) :
                  /\ t.ip_inds[j] = ip_ids[k]
                  /\ pick[t.op_inds[j]] # -1}
      src(k) == output_array(data, pick[t.op_inds[Max(js(k))]],
                             t.op_inds[Max(js(k))])
      sel(k) == metadata[p][metas[k]].indices
  IN [k \in 1..Len(data[p]["input"]) |->
        IF js(k) = {} THEN data[p]["input"][k]
        ELSE IF sel(k) = None THEN src(k)
        ELSE [i \in 1..Len(sel(k).list) |-> src(k)[sel(k).list[i] + 1]]]

\* The processes of node n's group apply the node's full transfer or one of
\* its forward transfers, in mode 'fwd'.  An output index that no process
\* stores delivers nothing; one that several store is read from any of them.
ApplyTransfer ==
  /\ stage = "outputs"
  /\ \E n \in nodes :
     \E k \in {j \in DOMAIN vector_transfers[Max(holders(n))][n] :
                 j.dir # "rev"} :
       LET rng == variable_allprocs_range[0][1]["output"]
           ops == rng[1]..(rng[2] - 1)
       IN \E pick \in [ops -> Procs \cup {-1}] :
            /\ \A op \in ops :
                 pick[op] \in IF owners(op) = {} THEN {-1} ELSE owners(op)
            /\ vector_data' =
                 [p \in Procs |->
                    IF n \in resident(p) /\ k \in DOMAIN vector_transfers[p][n]
                    THEN [vector_data[p] EXCEPT !["input"] =
                            transfer_call_fwd(vector_data, p,
                                              vector_transfers[p][n][k], pick)]
                    ELSE vector_data[p]]
            /\ applied' = [node |-> n, key |-> k]
  /\ stage' = "transferred"
  /\ UNCHANGED <<config_vars, proc_vars, name_vars, metadata, index_vars,
                 conn_vars, vectors, vector_transfers, vector_var_ids,
                 view_vars, lsc_vars, mvp_vars, res_vars,
                 tree_vars, gv_vars, collectives>>

----------------------------------------------------------------------------
\* Hierarchies with connections.

MaxConns == 2

ConnTrees ==
  { [n \in NodeIds |-> IF n = 1 THEN <<2, 3>> ELSE <<>>],
    [n \in NodeIds |-> IF n = 1 THEN <<2, 3, 4>> ELSE <<>>],
    [n \in NodeIds |-> IF n = 1 THEN <<2>>
                       ELSE IF n = 2 THEN <<3, 4>> ELSE <<>>],
    [n \in NodeIds |-> IF n = 1 THEN <<2, 4>>
                       ELSE IF n = 2 THEN <<3>> ELSE <<>>] }

\* Every leaf has one input u and one output x.
ConnLeafShape == [input |-> << <<"u">> >>, output |-> << <<"x">> >>]

\* Either nothing is promoted, or every leaf promotes its input u.
PromoteStyles == { {}, {<<"u">>} }

\* The src_indices of the connections: none, or the first entry twice.
SrcIndicesChoices == {None, index_list(<<0, 0>>)}

\* The names of kind typ that node n has when all its subtree is on one
\* process: what a connection declared on n can refer to.
RECURSIVE names_below(_, _)
names_below(n, typ) ==
  IF ~is_group(n) THEN declared[n][typ]
  ELSE LET kids == subsystems_allprocs[n]
           of(child) ==
             LET sub == names_below(child, typ)
                 m == get_maps(name[child], variable_promotes[child],
                               variable_renames[child], typ, sub)
             IN [k \in 1..Len(sub) |-> m[sub[k]]]
       IN Concat([i \in 1..Len(kids) |-> of(kids[i])])

\* The connections that can be declared on node n, numbered from 0: entry
\* i * (number of outputs) + o connects the i-th input name to the o-th
\* output name, and the last entry connects names that do not exist.
pool_size(n) ==
  Len(names_below(n, "input")) * Len(names_below(n, "output")) + 1
pool_entry(n, e, src) ==
  LET ins == names_below(n, "input")
      outs == names_below(n, "output")
  IN IF e = pool_size(n) - 1
     THEN [ip_name |-> no_such_name, op_name |-> no_such_name,
           src_indices |-> None]
     ELSE [ip_name |-> ins[(e \div Len(outs)) + 1],
           op_name |-> outs[(e % Len(outs)) + 1],
           src_indices |-> src]

RECURSIVE SortedSeq(_)
SortedSeq(S) ==
  IF S = {} THEN <<>>
  ELSE LET m == CHOOSE i \in S : \A j \in S : i <= j
       IN <<m>> \o SortedSeq(S \ {m})

distinct_keys(s) ==
  \A i \in 1..Len(s), j \in 1..Len(s) : i # j => s[i].ip_name # s[j].ip_name

\* The dictionaries of at most `most` items that can be declared on node n,
\* as lists of items with different keys.
connection_lists(n, most, src) ==
  IF ~is_group(n) THEN {<<>>}
  ELSE LET lists ==
             { [k \in 1..Cardinality(S) |-> pool_entry(n, SortedSeq(S)[k], src)]
               : S \in {T \in SUBSET (0..(pool_size(n) - 1)) :
                          Cardinality(T) <= most} }
       IN {l \in lists : distinct_keys(l)}

\* The dictionaries of nodes n..MaxNodes, of `most` items in all.
RECURSIVE connection_choices(_, _, _)
connection_choices(n, most, src) ==
  IF n > MaxNodes THEN {<<>>}
  ELSE UNION { { <<c>> \o rest :
                   rest \in connection_choices(n + 1, most - Len(c), src) } :
               c \in connection_lists(n, most, src) }

InitConn ==
  /\ subsystems_allprocs \in ConnTrees
  /\ nodes = tree_nodes(subsystems_allprocs)
  /\ name = [n \in NodeIds |-> IF n = 1 THEN <<>> ELSE <<Letters[n]>>]
  /\ declared = [n \in NodeIds |->
                   IF n \in nodes /\ ~is_group(n) THEN ConnLeafShape
                   ELSE NoVars]
  /\ nproc \in 1..MaxProcs
  /\ \E choice \in AllocChoices(1, nproc) :
       mpi_proc_allocator =
         [n \in NodeIds |->
            IF \E c \in choice : c[1] = n
            THEN (CHOOSE c \in choice : c[1] = n)[2] ELSE <<>>]
  /\ \E style \in PromoteStyles :
       variable_promotes =
         [n \in NodeIds |->
            IF n \in nodes /\ ~is_group(n)
            THEN [any |-> {}, input |-> style, output |-> {}]
            ELSE no_promotes]
  /\ variable_renames = [n \in NodeIds |-> no_renames]
  /\ \E src \in SrcIndicesChoices :
       \E choice \in connection_choices(1, MaxConns, src) :
         variable_connections = [n \in NodeIds |-> choice[n]]
  /\ InitAttrs

NextConn ==
  \/ SetupProcessors
  \/ SetupVariables
  \/ SetupVariableIndices
  \/ SetupConnections
  \/ SetupVector
  \/ SetOutputs
  \/ ApplyTransfer

SpecConn == InitConn /\ [][NextConn]_vars

----------------------------------------------------------------------------
\* The variables behind the names, for stating what the connections mean.

RECURSIVE subtree(_)
subtree(n) ==
  {n} \cup UNION { subtree(subsystems_allprocs[n][i])
                   : i \in 1..Len(subsystems_allprocs[n]) }

\* The variable (declaring leaf, kind, position) behind each name of
\* names_below(n, typ).
RECURSIVE vars_below(_, _)
vars_below(n, typ) ==
  IF ~is_group(n)
  THEN [k \in 1..Len(declared[n][typ]) |-> meta_ref(n, typ, k)]
  ELSE LET kids == subsystems_allprocs[n]
       IN Concat([i \in 1..Len(kids) |-> vars_below(kids[i], typ)])

occurs_once(s, x) == Cardinality({i \in 1..Len(s) : s[i] = x}) = 1

\* The variable that node m calls nm.
var_of(m, typ, nm) ==
  vars_below(m, typ)[ListIndex(names_below(m, typ), nm) + 1]

\* The global index of a variable: its position among the root's variables.
true_index(v) == ListIndex(vars_below(1, v[2]), v)

\* The connections declared in the hierarchy, as (node, item number).
declared_connections ==
  UNION { { <<m, k>> : k \in 1..Len(variable_connections[m]) } : m \in groups }
connection(d) == variable_connections[d[1]][d[2]]
ip_var(d) == var_of(d[1], "input", connection(d).ip_name)
op_var(d) == var_of(d[1], "output", connection(d).op_name)

\* Each name of connection d is the name of one variable of its node.
unambiguous(d) ==
  /\ occurs_once(names_below(d[1], "input"), connection(d).ip_name)
  /\ occurs_once(names_below(d[1], "output"), connection(d).op_name)

\* Every declared connection names one input and one output, and no input
\* is connected twice.
well_formed ==
  /\ \A d \in declared_connections : unambiguous(d)
  /\ \A d \in declared_connections, e \in declared_connections :
       d # e => ip_var(d) # ip_var(e)

\* The arrays stored for variable v, on the processes that hold it.
stored(v) ==
  UNION { { vector_data[p][v[2]][k] :
              k \in {j \in 1..Len(variable_myproc_metadata[p][1][v[2]]) :
                       variable_myproc_metadata[p][1][v[2]][j] = v} }
          : p \in Procs }

\* What an input connected with src_indices src receives from array a.
selected(a, src) ==
  IF src = None THEN a ELSE [i \in 1..Len(src.list) |-> a[src.list[i] + 1]]

----------------------------------------------------------------------------
\* C7: once _setup_connections has run, every connection declared on a node
\* with both names in the node's global name lists is in the node's resolved
\* list as the pair (position of the input name + lower bound of the input
\* range, position of the output name + lower bound of the output range),
\* and these are the indices _variable_allprocs_indices gives the two names.
C7_ResolvedToGlobalIndices ==
  reached("connections") =>
    \A p \in Procs : \A n \in resident(p) :
      \A k \in 1..Len(variable_connections[n]) :
        LET c == variable_connections[n][k]
            pair == resolve(p, n, c)
        IN resolvable(p, n, c) =>
             /\ pair \in SeqToSet(variable_connections_indices[p][n])
             /\ pair[1] = variable_allprocs_indices[p][n]["input"][c.ip_name]
             /\ pair[2] = variable_allprocs_indices[p][n]["output"][c.op_name]

\* C8: _setup_connections does not complete while a declared connection has
\* a name that is not in its node's global name lists.
C8_UnresolvableIsFatal ==
  reached("connections") =>
    \A p \in Procs : \A n \in resident(p) :
      \A k \in 1..Len(variable_connections[n]) :
        resolvable(p, n, variable_connections[n][k])

\* C9: after the full transfer of a node is applied forward, every input
\* that a connection declared in the node's subtree connects holds, on every
\* process that stores it, what the connected output holds; stated for
\* hierarchies in which every connection names one input and one output and
\* no input is connected twice.
C9_FullTransferDelivers ==
  (stage = "transferred" /\ applied.key = key_None /\ well_formed) =>
    \A d \in declared_connections :
      d[1] \in subtree(applied.node) =>
        \A a \in stored(ip_var(d)) :
          \E b \in stored(op_var(d)) :
            a = selected(b, connection(d).src_indices)

\* C10: after _setup_vector, the transfers of a node with n children have a
\* key ('fwd', i) for each i in 0..n-1, and over the processes of the node
\* the pairs of that transfer are exactly the connections with the input
\* under child i and the output under a child before child i; stated for
\* hierarchies in which every connection names one input and one output and
\* no input is connected twice.
C10_ForwardPartialTransfers ==
  (reached("vectors") /\ well_formed) =>
    \A n \in groups : \A i \in 1..Len(subsystems_allprocs[n]) :
      LET kids == subsystems_allprocs[n]
          k == key("fwd", i - 1)
          t(p) == vector_transfers[p][n][k]
          got == UNION { { <<t(p).ip_inds[j], t(p).op_inds[j]>>
                           : j \in 1..Len(t(p).ip_inds) }
                         : p \in holders(n) }
          under(v, child) == v[1] \in subtree(child)
          want == { <<true_index(ip_var(d)), true_index(op_var(d))>> :
                      d \in { e \in declared_connections :
                                /\ under(ip_var(e), kids[i])
                                /\ \E j \in 1..(i - 1) :
                                     under(op_var(e), kids[j]) } }
      IN /\ \A p \in holders(n) : k \in DOMAIN vector_transfers[p][n]
         /\ got = want

\* C11: after _setup_vector, the transfers of a node with n children have a
\* key ('rev', i) for each i in 0..n-1, every pair of that transfer is a
\* connection whose output is under a child after child i, and the forward
\* and the reverse transfer of a child have no pair in common; stated for
\* hierarchies in which every connection names one input and one output and
\* no input is connected twice.
C11_ReversePartialTransfers ==
  (reached("vectors") /\ well_formed) =>
    \A n \in groups : \A i \in 1..Len(subsystems_allprocs[n]) :
      \A p \in holders(n) :
        LET kids == subsystems_allprocs[n]
            pairs_of(t) == { <<t.ip_inds[j], t.op_inds[j]>>
                             : j \in 1..Len(t.ip_inds) }
            later == { <<true_index(ip_var(d)), true_index(op_var(d))>> :
                         d \in { e \in declared_connections :
                                   \E j \in (i + 1)..Len(kids) :
                                     op_var(e)[1] \in subtree(kids[j]) } }
        IN /\ key("rev", i - 1) \in DOMAIN vector_transfers[p][n]
           /\ key("fwd", i - 1) \in DOMAIN vector_transfers[p][n]
           /\ pairs_of(vector_transfers[p][n][key("rev", i - 1)]) \subseteq later
           /\ pairs_of(vector_transfers[p][n][key("rev", i - 1)])
                \cap pairs_of(vector_transfers[p][n][key("fwd", i - 1)]) = {}

\* Some process holds several children of a node that has several processes.
several_local_children ==
  \E p \in Procs : \E n \in resident(p) :
    comm_size(p, n) > 1 /\ Len(subsystems_myproc[p][n]) > 1

----------------------------------------------------------------------------
\* tests/test1.py: GroupG, components A and B with the connection A.x -> B.x,
\* and test_GS.  The nonlinear sweep of a group (its block Gauss-Seidel
\* solver) is not in src/; it follows the specification: the forward
\* transfer of a child refreshes the child's inputs just before the child
\* runs.

\* IndepVarComp('x', 0.) and CompB.initialize_variables.
CompA_vars == [input |-> <<>>, output |-> << <<"x">> >>]
CompB_vars == [input |-> << <<"x">> >>, output |-> << <<"f">> >>]

MaxValue == 10
Values == 0..MaxValue

\* As compute, with outputs['f'] = inputs['x'].
compute_no_doubling(n, inputs, outputs) ==
  IF declared[n] = CompB_vars THEN << inputs[1] >> ELSE outputs

\* CompB.compute: outputs['f'] = 2 * inputs['x'].  A component that defines
\* no compute leaves its outputs as they are.
compute(n, inputs, outputs) ==
  IF declared[n] = CompB_vars
  THEN << [i \in 1..Len(inputs[1]) |-> 2 * inputs[1][i]] >>
  ELSE outputs

\* Where the root's storage on process p keeps the variables of leaf n.
slots(p, n, typ) ==
  [k \in 1..Len(declared[n][typ]) |->
     ListIndex(variable_myproc_metadata[p][1][typ], meta_ref(n, typ, k)) + 1]

\* Vector.__setitem__ on the vector of kind typ of leaf n, for its k-th
\* variable, on the storage d of process p: self._views[key][:] = value.
setitem(p, n, typ, k, value, d) ==
  [d EXCEPT ![typ][slots(p, n, typ)[k]] =
     [i \in 1..Len(d[typ][slots(p, n, typ)[k]]) |-> value]]

\* Leaf n runs compute on the storage d of process p.
run_compute(p, n, d) ==
  LET ins == [k \in 1..Len(declared[n]["input"]) |->
                d["input"][slots(p, n, "input")[k]]]
      outs == [k \in 1..Len(declared[n]["output"]) |->
                 d["output"][slots(p, n, "output")[k]]]
      new == compute(n, ins, outs)
      at(j) == {k \in 1..Len(outs) : slots(p, n, "output")[k] = j}
  IN [d EXCEPT !["output"] =
        [j \in 1..Len(d["output"]) |->
           IF at(j) = {} THEN d["output"][j] ELSE new[Max(at(j))]]]

\* One nonlinear sweep of node n on the storage `data` of all processes: a
\* leaf computes; a group, for each child in insertion order, applies the
\* child's forward transfer and then sweeps the child.
RECURSIVE solve_nonlinear(_, _, _)
RECURSIVE gs_sweep(_, _, _, _)
solve_nonlinear(n, data, pick) ==
  IF ~is_group(n)
  THEN [p \in Procs |->
          IF n \in resident(p) THEN run_compute(p, n, data[p]) ELSE data[p]]
  ELSE gs_sweep(n, 1, data, pick)
gs_sweep(n, i, data, pick) ==
  IF i > Len(subsystems_allprocs[n]) THEN data
  ELSE LET moved ==
             [p \in Procs |->
                IF n \in resident(p)
                THEN [data[p] EXCEPT !["input"] =
                        transfer_call_fwd(data, p,
                          vector_transfers[p][n][key("fwd", i - 1)], pick)]
                ELSE data[p]]
       IN gs_sweep(n, i + 1,
                   solve_nonlinear(subsystems_allprocs[n][i], moved, pick),
                   pick)

\* compA._outputs['x'] = value, on the processes that hold A.
SetValue ==
  /\ stage \in {"vectors", "outputs", "swept"}
  /\ \E value \in Values :
       vector_data' =
         [p \in Procs |->
            IF 2 \in resident(p)
            THEN setitem(p, 2, "output", 1, value, vector_data[p])
            ELSE vector_data[p]]
  /\ stage' = "outputs"
  /\ UNCHANGED <<config_vars, proc_vars, name_vars, metadata, index_vars,
                 conn_vars, vectors, vector_transfers, vector_var_ids,
                 applied,
                 view_vars, lsc_vars, mvp_vars, res_vars,
                 tree_vars, gv_vars, collectives>>

\* root._solve_nonlinear().
SolveNonlinear ==
  /\ stage \in {"vectors", "outputs", "swept"}
  /\ LET rng == variable_allprocs_range[0][1]["output"]
         ops == rng[1]..(rng[2] - 1)
     IN \E pick \in [ops -> Procs \cup {-1}] :
          /\ \A op \in ops :
               pick[op] \in IF owners(op) = {} THEN {-1} ELSE owners(op)
          /\ vector_data' = solve_nonlinear(1, vector_data, pick)
  /\ stage' = "swept"
  /\ UNCHANGED <<config_vars, proc_vars, name_vars, metadata, index_vars,
                 conn_vars, vectors, vector_transfers, vector_var_ids,
                 applied,
                 view_vars, lsc_vars, mvp_vars, res_vars,
                 tree_vars, gv_vars, collectives>>

InitGS ==
  /\ subsystems_allprocs = [n \in NodeIds |-> IF n = 1 THEN <<2, 3>> ELSE <<>>]
  /\ nodes = {1, 2, 3}
  /\ name = [n \in NodeIds |-> IF n = 1 THEN <<>> ELSE <<Letters[n]>>]
  /\ declared = [n \in NodeIds |->
                   IF n = 2 THEN CompA_vars
                   ELSE IF n = 3 THEN CompB_vars ELSE NoVars]
  /\ nproc \in 1..MaxProcs
  /\ \E choice \in AllocChoices(1, nproc) :
       mpi_proc_allocator =
         [n \in NodeIds |->
            IF \E c \in choice : c[1] = n
            THEN (CHOOSE c \in choice : c[1] = n)[2] ELSE <<>>]
  /\ variable_promotes = [n \in NodeIds |-> no_promotes]
  /\ variable_renames = [n \in NodeIds |-> no_renames]
  /\ variable_connections =
       [n \in NodeIds |->
          IF n = 1
          THEN << [ip_name |-> <<"B", ".", "x">>, op_name |-> <<"A", ".", "x">>,
                   src_indices |-> None] >>
          ELSE <<>>]
  /\ InitAttrs

NextGS ==
  \/ SetupProcessors
  \/ SetupVariables
  \/ SetupVariableIndices
  \/ SetupConnections
  \/ SetupVector
  \/ SetValue
  \/ SolveNonlinear

SpecGS == InitGS /\ [][NextGS]_vars

\* C12: in GroupG, after a nonlinear sweep of the root, B's input x holds
\* the value of A.x and B's output f twice that value, on one process and
\* on several; so after A.x is set to 10, x is 10 and f is 20.
C12_SweepDoublesInput ==
  stage = "swept" =>
    \E a \in Values :
      /\ stored(meta_ref(2, "output", 1)) = {<<a>>}
      /\ stored(meta_ref(3, "input", 1)) = {<<a>>}
      /\ stored(meta_ref(3, "output", 1)) = {<<2 * a>>}

C12_Witness ==
  /\ stage = "swept"
  /\ nproc > 1
  /\ mpi_proc_range[0][2] # mpi_proc_range[1][3]
  /\ stored(meta_ref(2, "output", 1)) = {<<10>>}
  /\ stored(meta_ref(3, "input", 1)) = {<<10>>}
  /\ stored(meta_ref(3, "output", 1)) = {<<20>>}

\* A vector just made by Vector.__init__, for variables of any sizes and
\* varsets: the root's vector, or the sub-vector of a subsystem that has
\* all the variables but the first.
InitVec ==
  /\ subsystems_allprocs = [n \in NodeIds |-> <<>>]
  /\ nodes = {1}
  /\ name = [n \in NodeIds |-> <<>>]
  /\ declared = [n \in NodeIds |-> NoVars]
  /\ nproc = 1
  /\ mpi_proc_allocator = [n \in NodeIds |-> <<>>]
  /\ variable_promotes = [n \in NodeIds |-> no_promotes]
  /\ variable_renames = [n \in NodeIds |-> no_renames]
  /\ variable_connections = [n \in NodeIds |-> <<>>]
  /\ stage = "constructed"
  /\ path_name = [p \in Procs |-> init_proc_attrs.path_name]
  /\ mpi_proc_range = [p \in Procs |-> init_proc_attrs.mpi_proc_range]
  /\ subsystems_myproc = [p \in Procs |-> init_proc_attrs.subsystems_myproc]
  /\ subsystems_inds = [p \in Procs |-> init_proc_attrs.subsystems_inds]
  /\ variable_allprocs_names = [p \in Procs |-> [n \in NodeIds |-> NoVars]]
  /\ variable_myproc_names = [p \in Procs |-> [n \in NodeIds |-> NoVars]]
  /\ variable_maps = [p \in Procs |-> [n \in NodeIds |-> NoVars]]
  /\ InitLater
  /\ \E n \in 1..MaxVars :
       /\ vec_sizes \in [1..n -> Sizes]
       /\ vec_var_set \in [1..n -> VarSets]
       /\ vec_range \in {<<1, n>>} \cup (IF n > 1 THEN {<<2, n>>} ELSE {})
  /\ vec_data = initialize_root_data(vec_sizes, vec_var_set)
  /\ vec_views = initialize_views(vec_sizes, vec_var_set, vec_range)
  /\ vec_indices = initialize_indices(vec_sizes, vec_var_set, vec_range)
  /\ vec_idxs = initialize_idxs(vec_sizes, vec_range)
  /\ vec_names = DOMAIN vec_views
  /\ array = <<>>
  /\ call_key = <<>>
  /\ result = no_result
  /\ last_call = "init"
  /\ InitNoLsc

\* As GetItem, with the views looked up whatever the relevance set is.
GetItem_any_view ==
  /\ \E k \in call_keys :
       /\ call_key' = k
       /\ IF k \in DOMAIN vec_views
          THEN /\ result' = IF vec_idxs[k] = "0"
                            THEN [number |-> view_array(vec_data, vec_views[k])[1]]
                            ELSE [ndarray |-> view_array(vec_data, vec_views[k])]
               /\ raised' = "none"
          ELSE /\ result' = no_result
               /\ raised' = "KeyError"
  /\ last_call' = "getitem"
  /\ array' = <<>>
  /\ UNCHANGED <<system_vars, lsc_vars, mvp_vars, res_vars,
                 vec_sizes, vec_var_set, vec_range, vec_data,
                 vec_views, vec_indices, vec_names, vec_idxs>>

\* Vector.__getitem__(key).
GetItem ==
  /\ \E k \in call_keys :
       /\ call_key' = k
       /\ IF k \in vec_names /\ k \in DOMAIN vec_views
          THEN /\ result' = IF vec_idxs[k] = "0"
                            THEN [number |-> view_array(vec_data, vec_views[k])[1]]
                            ELSE [ndarray |-> view_array(vec_data, vec_views[k])]
               /\ raised' = "none"
          ELSE /\ result' = no_result
               /\ raised' = "KeyError"
  /\ last_call' = "getitem"
  /\ array' = <<>>
  /\ UNCHANGED <<system_vars, lsc_vars, mvp_vars, res_vars,
                 vec_sizes, vec_var_set, vec_range, vec_data,
                 vec_views, vec_indices, vec_names, vec_idxs>>

\* Vector.__setitem__(key, value).
SetItem ==
  /\ \E k \in call_keys : \E value \in VecValues :
       /\ call_key' = k
       /\ IF k \in vec_names /\ k \in DOMAIN vec_views
          THEN /\ vec_data' =
                    [vec_data EXCEPT ![vec_views[k].var_set] =
                       [j \in 1..Len(@) |->
                          IF vec_views[k].start < j /\ j <= vec_views[k].stop
                          THEN value ELSE @[j]]]
               /\ raised' = "none"
          ELSE /\ vec_data' = vec_data
               /\ raised' = "KeyError"
  /\ result' = no_result
  /\ last_call' = "setitem"
  /\ array' = <<>>
  /\ UNCHANGED <<system_vars, lsc_vars, mvp_vars, res_vars,
                 vec_sizes, vec_var_set, vec_range, vec_views,
                 vec_indices, vec_names, vec_idxs>>

\* Vector.__contains__(key).
Contains ==
  /\ \E k \in call_keys :
       /\ call_key' = k
       /\ result' = [bool |-> k \in vec_names]
  /\ raised' = "none"
  /\ last_call' = "contains"
  /\ array' = <<>>
  /\ UNCHANGED <<system_vars, lsc_vars, mvp_vars, res_vars,
                 vec_sizes, vec_var_set, vec_range, vec_data,
                 vec_views, vec_indices, vec_names, vec_idxs>>

\* Vector.__iter__(): the names the iterator yields.
Iter ==
  /\ result' = [names |-> vec_names]
  /\ call_key' = <<>>
  /\ raised' = "none"
  /\ last_call' = "iter"
  /\ array' = <<>>
  /\ UNCHANGED <<system_vars, lsc_vars, mvp_vars, res_vars,
                 vec_sizes, vec_var_set, vec_range, vec_data,
                 vec_views, vec_indices, vec_names, vec_idxs>>

\* Vector.get_data().
GetData ==
  /\ array' = get_data(own_data(vec_data), vec_indices, own_sizes)
  /\ result' = no_result
  /\ call_key' = <<>>
  /\ raised' = "none"
  /\ last_call' = "get_data"
  /\ UNCHANGED <<system_vars, lsc_vars, mvp_vars, res_vars,
                 vec_sizes, vec_var_set, vec_range, vec_data,
                 vec_views, vec_indices, vec_names, vec_idxs>>

\* Vector.set_data(arr).
SetData(arr) ==
  /\ Len(arr) = SumSeq(own_sizes)
  /\ vec_data' = write_own(vec_data,
                           set_data(own_data(vec_data), vec_indices, arr))
  /\ result' = no_result
  /\ call_key' = <<>>
  /\ raised' = "none"
  /\ last_call' = "set_data"
  /\ UNCHANGED <<system_vars, lsc_vars, mvp_vars, res_vars,
                 vec_sizes, vec_var_set, vec_range, vec_views,
                 vec_indices, vec_names, vec_idxs, array>>

\* set_data with the array get_data has just returned, or with zeros.
SetDataCall ==
  \E arr \in {array, zeros(SumSeq(own_sizes))} : SetData(arr)

\* d_inputs._names = set(ip_names), System._get_vectors lines 587-588: the
\* relevance set becomes all the names with a view, or all but the first.
RestrictNames ==
  /\ \E S \in { DOMAIN vec_views,
               DOMAIN vec_views \ {VecVarNames[vec_range[1]]} } :
       /\ S # vec_names
       /\ vec_names' = S
  /\ result' = no_result
  /\ call_key' = <<>>
  /\ raised' = "none"
  /\ last_call' = "names"
  /\ array' = <<>>
  /\ UNCHANGED <<system_vars, lsc_vars, mvp_vars, res_vars,
                 vec_sizes, vec_var_set, vec_range, vec_data,
                 vec_views, vec_indices, vec_idxs>>

NextVec ==
  \/ GetItem
  \/ SetItem
  \/ Contains
  \/ Iter
  \/ GetData
  \/ SetDataCall
  \/ RestrictNames

SpecVec == InitVec /\ [][NextVec]_vars

\* The places of the array of its varset that a view covers.
places(view) == (view.start + 1)..view.stop

\* C13: in every vector, the views of two distinct variables of the same
\* varset cover disjoint parts of the varset's array, and each view starts
\* where the sizes of the variables of its varset registered before it end.
C13_ViewsDisjoint ==
  (last_call # "none") =>
    /\ \A a \in DOMAIN vec_views : \A b \in DOMAIN vec_views :
         (a # b /\ vec_views[a].var_set = vec_views[b].var_set) =>
           places(vec_views[a]) \cap places(vec_views[b]) = {}
    /\ \A k \in vec_range[1]..vec_range[2] :
         LET view == vec_views[VecVarNames[k]]
         IN /\ view.start = size_in_set(vec_sizes, vec_var_set, 1, k - 1,
                                        vec_var_set[k])
            /\ view.stop - view.start = vec_sizes[k]
            /\ view.stop <= Len(vec_data[view.var_set])

\* A sub-vector with two variables of one varset, each of several elements,
\* behind a variable of the same varset that the vector does not have.
C13_Witness ==
  /\ last_call # "none"
  /\ vec_range = <<2, 3>>
  /\ vec_var_set = <<0, 0, 0>>
  /\ vec_sizes = <<2, 2, 2>>
  /\ places(vec_views[VecVarNames[2]]) = {3, 4}
  /\ places(vec_views[VecVarNames[3]]) = {5, 6}

\* C14: set_data with the array that get_data has just returned leaves
\* every varset's array, and so every view, as it was before the two calls.
C14_RoundTrip ==
  [][(last_call = "get_data" /\ SetData(array)) =>
       /\ vec_data' = vec_data
       /\ \A nm \in DOMAIN vec_views :
            view_array(vec_data', vec_views[nm]) =
              view_array(vec_data, vec_views[nm])]_vars

\* After the two calls on a sub-vector whose variables alternate between
\* the varsets, with a value written to its first variable and the
\* variable before it, of the same varset, left at zero.
C14_Witness ==
  /\ last_call = "set_data"
  /\ vec_range = <<2, 3>>
  /\ vec_var_set = <<1, 1, 0>>
  /\ vec_sizes = <<1, 2, 2>>
  /\ vec_data = [s \in VarSets |-> IF s = 1 THEN <<0, 7, 7>> ELSE <<0, 0>>]
  /\ array = <<7, 7, 0, 0>>

\* C15: reading or writing vector[name] for a name outside _names raises
\* KeyError, returns nothing and changes no stored value, whether or not the
\* name has a view; `in` and iteration report exactly the names in _names.
C15_OutsideRelevanceRaises ==
  [][/\ (last_call' \in {"getitem", "setitem"} /\ call_key' \notin vec_names) =>
          /\ raised' = "KeyError"
          /\ result' = no_result
          /\ vec_data' = vec_data
          /\ vec_views' = vec_views
     /\ (last_call' \in {"getitem", "setitem"} /\ call_key' \in vec_names) =>
          raised' = "none"
     /\ (last_call' = "contains") =>
          result' = [bool |-> call_key' \in vec_names]
     /\ (last_call' = "iter") => result' = [names |-> vec_names]]_vars

\* A read of a variable that has a view holding a written value, and is
\* not in the relevance set, has raised KeyError.
C15_Witness ==
  /\ last_call = "getitem"
  /\ raised = "KeyError"
  /\ call_key \in DOMAIN vec_views
  /\ call_key \notin vec_names
  /\ view_array(vec_data, vec_views[call_key]) = <<7, 7>>

----------------------------------------------------------------------------
\* The nodes System._setup_processors has been called on, on process p: the
\* root and the children in _subsystems_myproc of a node it was called on.
\* (resident(p), by its definition.)

\* What the allocator of node n returns on process p.
allocated(p, n) ==
  proc_allocator_call(mpi_proc_allocator[n], Len(subsystems_allprocs[n]), p,
                      mpi_proc_range[p][n])

\* C16: after _setup_processors, on every process and for every node with
\* children that the recursion has reached there, _subsystems_myproc is the
\* children at the allocator's indices, in insertion order, and a child that
\* is not among them has, with all the nodes below it, the communicator
\* range, path name and child lists that System.__init__ gave it.
C16_OnlyLocalChildrenVisited ==
  reached("processors") =>
    \A p \in Procs : \A n \in resident(p) :
      LET kids == subsystems_allprocs[n]
          inds == allocated(p, n).sub_inds
      IN (kids # <<>>) =>
           /\ subsystems_inds[p][n] = inds
           /\ subsystems_myproc[p][n] = [i \in 1..Len(inds) |-> kids[inds[i] + 1]]
           /\ \A i \in 1..(Len(inds) - 1) : inds[i] < inds[i + 1]
           /\ \A k \in 1..Len(kids) :
                (\A i \in 1..Len(inds) : inds[i] # k - 1) =>
                  \A d \in subtree(kids[k]) :
                    /\ d \notin resident(p)
                    /\ path_name[p][d] = init_proc_attrs.path_name[d]
                    /\ mpi_proc_range[p][d] = init_proc_attrs.mpi_proc_range[d]
                    /\ subsystems_myproc[p][d] = <<>>
                    /\ subsystems_inds[p][d] = <<>>

\* Two processes, each with one of the root's two children, one of which is
\* a group with a child of its own that the other process never reaches.
C16_Witness ==
  /\ reached("processors")
  /\ nproc = 2
  /\ Len(subsystems_allprocs[1]) = 2
  /\ \E p \in Procs : \E c \in SeqToSet(subsystems_allprocs[1]) :
       /\ c \notin SeqToSet(subsystems_myproc[p][1])
       /\ subsystems_allprocs[c] # <<>>
       /\ \E q \in Procs : subsystems_myproc[q][c] # <<>>

----------------------------------------------------------------------------
\* The connections that _setup_connections, on process p, is to record the
\* src_indices of in the metadata of variable v: those declared on a node
\* the process holds, with both names in the node's global lists, with
\* src_indices, and with the input name, which is v's, in the node's local
\* list of names.
selecting(p, v) ==
  { d \in declared_connections :
      /\ d[1] \in resident(p)
      /\ resolvable(p, d[1], connection(d))
      /\ connection(d).src_indices # None
      /\ connection(d).ip_name
           \in SeqToSet(variable_myproc_names[p][d[1]]["input"])
      /\ ip_var(d) = v }

\* C18: when _setup_connections has run (to its end or to an exception), on
\* every process the metadata of a variable whose name is the local input
\* of a resolved connection with src_indices has these as 'indices' and
\* their shape as 'shape', and every other metadata is as add_input and
\* add_output made it; stated for hierarchies in which every connection
\* names one input and one output and no input is connected twice.
C18_MetadataFrame ==
  ((reached("connections") \/ stage = "failed") /\ well_formed) =>
    \A p \in Procs : \A v \in DOMAIN metadata[p] :
      IF selecting(p, v) = {}
      THEN metadata[p][v] = new_metadata
      ELSE \E d \in selecting(p, v) :
             metadata[p][v] =
               [indices |-> connection(d).src_indices,
                shape |-> <<Len(connection(d).src_indices.list)>>]

\* No group on several processes is below another group: for every node a
\* process holds, the names the node has for the process's variables are
\* in step with the metadata list.
names_match_metadata ==
  \A p \in Procs : \A n \in resident(p) :
    Len(variable_myproc_names[p][n]["input"]) =
      Len(variable_myproc_metadata[p][n]["input"])

\* C19: after _setup_vector, on every process the vector of every node the
\* process holds, at any depth, has the root's vector as its _global_vector;
\* the root's vector is its own _global_vector and the only one that is; the
\* process's storage is the root's, one array per variable the root holds
\* there.
C19_OneRootVector ==
  reached("vectors") =>
    \A p \in Procs :
      /\ \A n \in resident(p) :
           /\ vectors[p][n].system = n
           /\ vectors[p][n].global_vector = 1
           /\ (vectors[p][n].global_vector = vectors[p][n].system) <=> (n = 1)
      /\ \A typ \in Typs :
           Len(vector_data[p][typ]) = Len(variable_myproc_metadata[p][1][typ])

\* A node two levels below the root has its vector, on two processes.
C19_Witness ==
  /\ reached("vectors")
  /\ nproc = 2
  /\ \E p \in Procs : \E n \in resident(p) : \E m \in resident(p) :
       /\ n \in SeqToSet(subsystems_myproc[p][1])
       /\ m \in SeqToSet(subsystems_myproc[p][n])
       /\ vectors[p][m] = [system |-> m, global_vector |-> 1]

----------------------------------------------------------------------------
\* A LinearSystemComp on its own, with the vectors' 'x' that solve_linear is
\* called with.

\* The hierarchy is a single system that is not set up.
InitNoSystem ==
  /\ subsystems_allprocs = [n \in NodeIds |-> <<>>]
  /\ nodes = {1}
  /\ name = [n \in NodeIds |-> <<>>]
  /\ declared = [n \in NodeIds |-> NoVars]
  /\ nproc = 1
  /\ mpi_proc_allocator = [n \in NodeIds |-> <<>>]
  /\ variable_promotes = [n \in NodeIds |-> no_promotes]
  /\ variable_renames = [n \in NodeIds |-> no_renames]
  /\ variable_connections = [n \in NodeIds |-> <<>>]
  /\ stage = "constructed"
  /\ path_name = [p \in Procs |-> init_proc_attrs.path_name]
  /\ mpi_proc_range = [p \in Procs |-> init_proc_attrs.mpi_proc_range]
  /\ subsystems_myproc = [p \in Procs |-> init_proc_attrs.subsystems_myproc]
  /\ subsystems_inds = [p \in Procs |-> init_proc_attrs.subsystems_inds]
  /\ variable_allprocs_names = [p \in Procs |-> [n \in NodeIds |-> NoVars]]
  /\ variable_myproc_names = [p \in Procs |-> [n \in NodeIds |-> NoVars]]
  /\ variable_maps = [p \in Procs |-> [n \in NodeIds |-> NoVars]]
  /\ InitLater

InitLsc ==
  /\ InitNoSystem
  /\ InitNoVector
  /\ InitNoLsc

\* inputs['A'] = A
LscSetInputs ==
  /\ \E A \in Matrices : A # inputs_A /\ inputs_A' = A
  /\ lsc_call' = "set_inputs"
  /\ UNCHANGED <<system_vars, view_vars, mvp_vars, residuals_x, raised, inputs_b, outputs_x, lup,
                 factored, d_outputs_x, d_residuals_x, mode>>

\* As solve_nonlinear, with the factorization made once and kept.
LscSolveNonlinear_cached ==
  /\ lup' = IF lup = no_lup THEN lu_factor(inputs_A) ELSE lup
  /\ factored' = inputs_A
  /\ outputs_x' = lu_solve(lu_factor(inputs_A), inputs_b, 0)
  /\ lsc_call' = "solve_nonlinear"
  /\ UNCHANGED <<system_vars, view_vars, mvp_vars, residuals_x, raised,
                 inputs_A, inputs_b, d_outputs_x, d_residuals_x, mode>>

\* LinearSystemComp.solve_nonlinear(inputs, outputs).
LscSolveNonlinear ==
  /\ lup' = lu_factor(inputs_A)
  /\ factored' = inputs_A
  /\ outputs_x' = lu_solve(lu_factor(inputs_A), inputs_b, 0)
  /\ lsc_call' = "solve_nonlinear"
  /\ UNCHANGED <<system_vars, view_vars, mvp_vars, residuals_x, raised, inputs_A, inputs_b,
                 d_outputs_x, d_residuals_x, mode>>

\* d_outputs['x'] = v; d_residuals['x'] = w
LscSetDerivs ==
  /\ \E v \in RhsVectors, w \in RhsVectors :
       /\ d_outputs_x' = v
       /\ d_residuals_x' = w
  /\ mode' = "none"
  /\ lsc_call' = "set_derivs"
  /\ UNCHANGED <<system_vars, view_vars, mvp_vars, residuals_x, raised, inputs_A, inputs_b,
                 outputs_x, lup, factored>>

\* LinearSystemComp.solve_linear(d_outputs, d_residuals, m), called with
\* vectors that the caller has set; with _lup None lu_solve raises TypeError.
SolveLinear(m) ==
  /\ mode = "none"
  /\ IF lup = no_lup
     THEN /\ raised' = "TypeError"
          /\ UNCHANGED <<d_outputs_x, d_residuals_x>>
     ELSE LET r == solve_linear(d_outputs_x, d_residuals_x, m, lup)
          IN /\ d_outputs_x' = r.d_outputs
             /\ d_residuals_x' = r.d_residuals
             /\ raised' = "none"
  /\ mode' = m
  /\ lsc_call' = "solve_linear"
  /\ UNCHANGED <<system_vars, view_vars, mvp_vars, residuals_x, inputs_A, inputs_b, outputs_x, lup,
                 factored>>

LscSolveLinear == \E m \in Modes : SolveLinear(m)

\* inputs['b'] = b
LscSetB ==
  /\ \E b \in BVectors : b # inputs_b /\ inputs_b' = b
  /\ lsc_call' = "set_inputs"
  /\ UNCHANGED <<system_vars, view_vars, mvp_vars, residuals_x, raised,
                 inputs_A, outputs_x, lup, factored, d_outputs_x,
                 d_residuals_x, mode>>

\* LinearSystemComp.apply_nonlinear(inputs, outputs, residuals).
LscApplyNonlinear ==
  /\ residuals_x' = apply_nonlinear(inputs_A, inputs_b, outputs_x)
  /\ lsc_call' = "apply_nonlinear"
  /\ UNCHANGED <<system_vars, view_vars, mvp_vars, raised, inputs_A,
                 inputs_b, outputs_x, lup, factored, d_outputs_x,
                 d_residuals_x, mode>>

NextLsc ==
  \/ LscSetInputs
  \/ LscSolveNonlinear
  \/ LscSetDerivs
  \/ LscSolveLinear

SpecLsc == InitLsc /\ [][NextLsc]_vars

\* C20: solve_linear in mode 'fwd' leaves d_residuals as it is and makes
\* d_outputs the solution of A dx = d_residuals; in any other mode it leaves
\* d_outputs as it is and makes d_residuals the solution of
\* transpose(A) dx = d_outputs, A being the matrix that was factorized; in
\* both it leaves _lup as it is; with A the identity and d_outputs
\* [1, 0, 0], the result in mode 'rev' is [1, 0, 0].
C20_SolveLinearModes ==
  [][\A m \in Modes :
       (lup # no_lup /\ SolveLinear(m)) =>
         /\ lup' = lup
         /\ (m = "fwd") =>
              /\ d_residuals_x' = d_residuals_x
              /\ dot(factored, d_outputs_x') = d_residuals_x
         /\ (m # "fwd") =>
              /\ d_outputs_x' = d_outputs_x
              /\ dot(transpose(factored), d_residuals_x') = d_outputs_x
         /\ (m = "rev" /\ factored = eye /\ d_outputs_x = <<1, 0, 0>>) =>
              d_residuals_x' = <<1, 0, 0>>]_vars

\* After solve_linear in mode 'rev' with a triangular A, whose transpose
\* gives another solution than A does.
C20_Witness ==
  /\ mode = "rev"
  /\ raised = "none"
  /\ factored = << <<1, 0, 0>>, <<1, 1, 0>>, <<0, 1, 1>> >>
  /\ lup = lu_factor(factored)
  /\ d_outputs_x = <<1, 2, 3>>
  /\ d_residuals_x = <<2, -1, 3>>

\* C27: solve_linear uses the factorization that the most recent
\* solve_nonlinear made: _lup is the factorization of the A of that call,
\* and the result solves the system of that A (transposed in a mode other
\* than 'fwd'), also when input A was changed since; called before any
\* solve_nonlinear, with _lup None, it raises and changes no vector.
C27_FactorizationOfLastSolve ==
  [][\A m \in Modes :
       SolveLinear(m) =>
         IF lup = no_lup
         THEN /\ lsc_call \in {"initialize_variables", "set_inputs",
                                "set_derivs", "solve_linear"}
              /\ raised' = "TypeError"
              /\ d_outputs_x' = d_outputs_x
              /\ d_residuals_x' = d_residuals_x
         ELSE /\ lup = lu_factor(factored)
              /\ raised' = "none"
              /\ (m = "fwd") =>
                   dot(factored, d_outputs_x') = d_residuals_x
              /\ (m # "fwd") =>
                   dot(transpose(factored), d_residuals_x') = d_outputs_x
    ]_vars

\* solve_linear has solved the system of the A of the last solve_nonlinear,
\* which is not the system of input A as it is now.
C27_Witness ==
  /\ lsc_call = "solve_linear"
  /\ mode = "fwd"
  /\ raised = "none"
  /\ inputs_A = eye
  /\ factored = << <<1, 0, 0>>, <<1, 1, 0>>, <<0, 1, 1>> >>
  /\ d_residuals_x = <<1, 2, 3>>
  /\ d_outputs_x = <<1, 1, 2>>

\* The nonlinear part: the inputs are set, and the solve and the residual
\* evaluation are called in any order.
NextNl ==
  \/ LscSetInputs
  \/ LscSetB
  \/ LscSolveNonlinear
  \/ LscApplyNonlinear

SpecNl == InitLsc /\ [][NextNl]_vars

\* the determinant of a 3 x 3 matrix
det(M) ==
  M[1][1] * (M[2][2] * M[3][3] - M[2][3] * M[3][2])
  - M[1][2] * (M[2][1] * M[3][3] - M[2][3] * M[3][1])
  + M[1][3] * (M[2][1] * M[3][2] - M[2][2] * M[3][1])

\* C22: solve_nonlinear with an invertible A leaves an x with A x = b, so
\* that apply_nonlinear called next writes the residual A x - b = 0; with A
\* the identity and b = [1, 2, 3], x becomes [1, 2, 3].
C22_SolveThenZeroResidual ==
  [][/\ (det(inputs_A) # 0 /\ LscSolveNonlinear) =>
          /\ dot(inputs_A, outputs_x') = inputs_b
          /\ (inputs_A = eye /\ inputs_b = <<1, 2, 3>>) =>
               outputs_x' = <<1, 2, 3>>
     /\ (det(inputs_A) # 0 /\ lsc_call = "solve_nonlinear"
           /\ LscApplyNonlinear) =>
          residuals_x' = <<0, 0, 0>>]_vars

\* apply_nonlinear has written the residual zero after a solve with a
\* matrix that needs a row exchange and b = [1, 2, 3].
C22_Witness ==
  /\ lsc_call = "apply_nonlinear"
  /\ inputs_A = << <<0, 1, 1>>, <<-1, 1, 0>>, <<1, 0, 0>> >>
  /\ factored = inputs_A
  /\ inputs_b = <<1, 2, 3>>
  /\ outputs_x = <<3, 5, -4>>
  /\ residuals_x = <<0, 0, 0>>

----------------------------------------------------------------------------
\* Hierarchies for the collective calls of setup: groups in groups down to
\* three levels, leaves like CompA (an output only) or CompB (an input and
\* an output), and at most one connection, with or without src_indices.

CollTrees ==
  { [n \in NodeIds |-> IF n = 1 THEN <<2, 3>> ELSE <<>>],
    [n \in NodeIds |-> IF n = 1 THEN <<2>>
                       ELSE IF n = 2 THEN <<3, 4>> ELSE <<>>],
    [n \in NodeIds |-> IF n = 1 THEN <<2, 5>>
                       ELSE IF n = 2 THEN <<3, 4>> ELSE <<>>],
    [n \in NodeIds |-> IF n = 1 THEN <<2>>
                       ELSE IF n = 2 THEN <<3>>
                       ELSE IF n = 3 THEN <<4, 5>> ELSE <<>>] }

InitColl ==
  /\ subsystems_allprocs \in CollTrees
  /\ nodes = tree_nodes(subsystems_allprocs)
  /\ name = [n \in NodeIds |-> IF n = 1 THEN <<>> ELSE <<Letters[n]>>]
  /\ declared \in [NodeIds -> {NoVars, CompA_vars, CompB_vars}]
  /\ \A n \in NodeIds :
       (declared[n] = NoVars) <=> (n \notin nodes \/ is_group(n))
  /\ nproc \in 1..MaxProcs
  /\ \E choice \in AllocChoices(1, nproc) :
       mpi_proc_allocator =
         [n \in NodeIds |->
            IF \E c \in choice : c[1] = n
            THEN (CHOOSE c \in choice : c[1] = n)[2] ELSE <<>>]
  /\ variable_promotes = [n \in NodeIds |-> no_promotes]
  /\ variable_renames = [n \in NodeIds |-> no_renames]
  /\ \E src \in SrcIndicesChoices :
       \E choice \in connection_choices(1, 1, src) :
         variable_connections = [n \in NodeIds |-> choice[n]]
  /\ InitAttrs

NextColl ==
  \/ SetupProcessors
  \/ SetupVariables
  \/ SetupVariableIndices
  \/ SetupConnections

SpecColl == InitColl /\ [][NextColl]_vars

\* The collective calls process p has made on the comm of node n.
calls_on(p, n) ==
  LET on_n(c) == c.node = n
  IN SelectSeq(collectives[p], on_n)

\* C17: at the end of every setup step, the processes of the comm of a node
\* have made the same collective calls on it, in the same order, so none of
\* them is left waiting in a call the others do not make.
C17_SameCollectives ==
  \A n \in nodes : \A p \in holders(n) : \A q \in holders(n) :
    calls_on(p, n) = calls_on(q, n)

----------------------------------------------------------------------------
\* LinearSystemComp with partial_type 'matrix_free': apply_linear is
\* _mat_vec_prod.  The forward product is taken of seeds in d_outputs and
\* d_inputs with d_residuals zero, the reverse product of a seed in
\* d_residuals with d_outputs and d_inputs zero.

\* outputs['x']: the value of add_output, and two others.
XVectors == { <<2, 2, 2>>, <<1, 2, 3>>, <<1, 0, 0>> }

\* The _names of d_inputs and d_outputs: every variable, the inputs only,
\* the output only.
NameChoices ==
  { all_names,
    [inputs |-> {"A", "b"}, outputs |-> {}],
    [inputs |-> {}, outputs |-> {"x"}] }

\* the inner product of two vectors, and of two matrices
inner(a, b) == SumSeq([i \in Rows |-> a[i] * b[i]])
inner_matrix(M, N) == SumSeq([i \in Rows |-> inner(M[i], N[i])])

InitMvp ==
  /\ InitNoSystem
  /\ InitNoVector
  /\ inputs_A \in Matrices
  /\ inputs_b = <<1, 1, 1>>
  /\ outputs_x \in XVectors
  /\ lup = no_lup
  /\ factored = <<>>
  /\ d_outputs_x = <<0, 0, 0>>
  /\ d_residuals_x = <<0, 0, 0>>
  /\ mode = "none"
  /\ d_inputs_A = zero_matrix
  /\ d_inputs_b = <<0, 0, 0>>
  /\ d_names \in NameChoices
  /\ seed = no_seed
  /\ forward = <<0, 0, 0>>
  /\ residuals_x = <<0, 0, 0>>
  /\ lsc_call = "initialize_variables"

\* d_outputs['x'] = dx; d_inputs['A'] = dA; d_inputs['b'] = db, each for a
\* name of the vector's _names (__setitem__ takes no other), and
\* d_residuals['x'] = 0; a variable that is not relevant has the seed zero.
MvpSetSeeds ==
  /\ \E dx \in IF "x" \in d_names.outputs THEN RhsVectors
                 ELSE {<<0, 0, 0>>},
        dA \in IF "A" \in d_names.inputs THEN Matrices ELSE {zero_matrix},
        db \in IF "b" \in d_names.inputs THEN RhsVectors
                 ELSE {<<0, 0, 0>>},
        w \in RhsVectors :
       /\ seed' = [dx |-> dx, dA |-> dA, db |-> db, w |-> w,
                   loaded |-> "fwd"]
       /\ d_outputs_x' = dx
       /\ d_inputs_A' = dA
       /\ d_inputs_b' = db
  /\ d_residuals_x' = <<0, 0, 0>>
  /\ mode' = "none"
  /\ forward' = <<0, 0, 0>>
  /\ UNCHANGED <<system_vars, view_vars, res_vars, raised, inputs_A, inputs_b,
                 outputs_x, lup, factored, d_names>>

\* After the forward product: d_residuals['x'] = w, and d_outputs and
\* d_inputs are set to zero.
MvpSetReverseSeed ==
  /\ mode = "fwd"
  /\ seed.loaded = "fwd"
  /\ seed' = [seed EXCEPT !.loaded = "rev"]
  /\ d_residuals_x' = seed.w
  /\ d_outputs_x' = <<0, 0, 0>>
  /\ d_inputs_A' = zero_matrix
  /\ d_inputs_b' = <<0, 0, 0>>
  /\ mode' = "none"
  /\ UNCHANGED <<system_vars, view_vars, res_vars, raised, inputs_A, inputs_b,
                 outputs_x, lup, factored, d_names, forward>>

\* LinearSystemComp._mat_vec_prod(inputs, outputs, d_inputs, d_outputs,
\* d_residuals, m), called on freshly seeded vectors; the result of the
\* forward product of the seeds is kept.
MatVecProd(m) ==
  /\ mode = "none"
  /\ seed.loaded # "none"
  /\ LET r == mat_vec_prod(inputs_A, outputs_x, d_inputs_A, d_inputs_b,
                           d_outputs_x, d_residuals_x, d_names, m)
     IN /\ d_inputs_A' = r.d_inputs_A
        /\ d_inputs_b' = r.d_inputs_b
        /\ d_outputs_x' = r.d_outputs_x
        /\ d_residuals_x' = r.d_residuals_x
        /\ forward' = IF m = "fwd" /\ seed.loaded = "fwd"
                      THEN r.d_residuals_x ELSE forward
  /\ mode' = m
  /\ UNCHANGED <<system_vars, view_vars, res_vars, raised, inputs_A, inputs_b,
                 outputs_x, lup, factored, d_names, seed>>

ApplyLinear == \E m \in Modes : MatVecProd(m)

NextMvp ==
  \/ MvpSetSeeds
  \/ MvpSetReverseSeed
  \/ ApplyLinear

SpecMvp == InitMvp /\ [][NextMvp]_vars

\* C21: with A and x fixed and 'x', 'A' and 'b' all relevant, the forward
\* product of the seeds (dx, dA, db) and the reverse product of the seed w,
\* each from zeroed result vectors, are adjoint: the inner product of the
\* forward product with w equals the inner product of (dx, dA, db) with
\* the reverse product.
C21_Adjoint ==
  (mode = "rev" /\ seed.loaded = "rev" /\ d_names = all_names) =>
    inner(forward, seed.w) =
      inner(seed.dx, d_outputs_x) + inner_matrix(seed.dA, d_inputs_A)
        + inner(seed.db, d_inputs_b)

\* Both products are made, of a dA that is not symmetric and with x and w
\* not parallel.
C21_Witness ==
  /\ mode = "rev"
  /\ seed.loaded = "rev"
  /\ d_names = all_names
  /\ inputs_A = << <<1, 1, 0>>, <<0, 1, 1>>, <<0, 0, 1>> >>
  /\ outputs_x = <<1, 2, 3>>
  /\ seed.dx = <<1, 2, 3>>
  /\ seed.dA = << <<1, 0, 0>>, <<1, 1, 0>>, <<0, 1, 1>> >>
  /\ seed.db = <<1, 0, 0>>
  /\ seed.w = <<1, 0, 0>>
  /\ forward = <<3, 8, 8>>
  /\ d_outputs_x = <<1, 1, 0>>
  /\ d_inputs_b = <<-1, 0, 0>>

----------------------------------------------------------------------------
\* get_subsystem, called on any process, on any node and at any time before
\* or after _setup_processors.

\* The dot-joined ancestry of node n from the root.
RECURSIVE ancestry(_)
ancestry(n) ==
  IF n = 1 THEN name[1]
  ELSE LET par == CHOOSE m \in nodes :
                    \E i \in 1..Len(subsystems_allprocs[m]) :
                      subsystems_allprocs[m][i] = n
           path == ancestry(par)
       IN IF path # <<>> THEN path \o <<".">> \o name[n] ELSE name[n]

\* The names asked for: the path of every node, every path_name that a
\* node has on some process, and a name that no node has.
PathNames ==
  {ancestry(n) : n \in nodes}
    \cup {path_name[p][n] : p \in Procs, n \in nodes}
    \cup {no_such_name}

GetSubsystem ==
  /\ \E p \in Procs, n \in nodes, nm \in PathNames :
       tree_call' = [op |-> "get_subsystem", proc |-> p, node |-> n,
                     name |-> nm, result |-> get_subsystem(p, n, nm)]
  /\ UNCHANGED <<config_vars, stage, proc_vars, name_vars, metadata,
                 index_vars, conn_vars, vector_vars, view_vars, lsc_vars,
                 mvp_vars, res_vars, collectives, jacobian, jac_top,
                 jac_count, gv_vars>>

NextSub ==
  \/ SetupProcessors
  \/ GetSubsystem

\* The hierarchies of Init with every leaf a CompA: the variables play no
\* part in the calls made here.
InitTreeOps ==
  /\ Init
  /\ \A n \in nodes : is_group(n) \/ declared[n] = CompA_vars

SpecSub == InitTreeOps /\ [][NextSub]_vars

\* C23: get_subsystem(name) called on a node returns the node of that
\* node's resident subtree whose path name is name; it returns None when no
\* node resident on the process has that path name; and a node it returns
\* has the path name asked for.  After _setup_processors the path name of a
\* resident node is its dot-joined ancestry.
C23_FindsByPathName ==
  [][GetSubsystem =>
       LET p == tree_call'.proc
           nm == tree_call'.name
           found == tree_call'.result
           below == resident_below(p, tree_call'.node)
       IN /\ (stage # "constructed") =>
               \A m \in resident(p) : path_name[p][m] = ancestry(m)
          /\ \A m \in below : (path_name[p][m] = nm) => found = m
          /\ (\A m \in resident(p) : path_name[p][m] # nm) =>
               found = NoSystem
          /\ (found # NoSystem) =>
               /\ path_name[p][found] = nm
               /\ found \in below]_vars

\* The node found is below the second child of the node asked, two levels
\* down from it.
C23_Witness ==
  /\ stage = "processors"
  /\ tree_call.op = "get_subsystem"
  /\ tree_call.node = 1
  /\ subsystems_allprocs[1] = <<2, 3>>
  /\ subsystems_allprocs[3] = <<4>>
  /\ tree_call.name = <<"B", ".", "C">>
  /\ tree_call.result = 4

----------------------------------------------------------------------------
\* set_jacobian, called on any process, on any node, with a Jacobian of the
\* caller or with None.

\* The most calls of set_jacobian in a run.
MaxJacCalls == 2

SetJacobian(p, n, J) ==
  /\ jac_count < MaxJacCalls
  /\ LET st == set_jacobian(p, n, J, TRUE, jac_count + 1,
                            [jacobian |-> jacobian[p],
                             jac_top |-> jac_top[p]])
     IN /\ jacobian' = [jacobian EXCEPT ![p] = st.jacobian]
        /\ jac_top' = [jac_top EXCEPT ![p] = st.jac_top]
  /\ jac_count' = jac_count + 1
  /\ UNCHANGED <<config_vars, stage, proc_vars, name_vars, metadata,
                 index_vars, conn_vars, vector_vars, view_vars, lsc_vars,
                 mvp_vars, res_vars, collectives, tree_call, gv_vars>>

SetJacobianCall ==
  \E p \in Procs, n \in nodes, J \in UserJacobians \cup {NoJacobian} :
    SetJacobian(p, n, J)

NextJac ==
  \/ SetupProcessors
  \/ SetJacobianCall

SpecJac == InitTreeOps /\ [][NextJac]_vars

\* C24: set_jacobian(J) with a Jacobian J, called on node N, leaves N and
\* every resident descendant of N with J as _jacobian, and J with N as its
\* _top_system and N's path name as its _top_name; every other node keeps
\* the Jacobian it had.
C24_JacobianOnSubtree ==
  [][\A p \in Procs, n \in nodes, J \in UserJacobians :
       SetJacobian(p, n, J) =>
         /\ \A m \in resident_below(p, n) : jacobian'[p][m] = J
         /\ jac_top'[p][J].top_system = n
         /\ jac_top'[p][J].top_name = path_name[p][n]
         /\ \A m \in NodeIds \ resident_below(p, n) :
              jacobian'[p][m] = jacobian[p][m]
         /\ \A q \in Procs \ {p} : jacobian'[q] = jacobian[q]]_vars

\* A Jacobian is attached at a child of the root that has a child itself;
\* the root and the other child keep their own.
C24_Witness ==
  /\ stage = "processors"
  /\ subsystems_allprocs[1] = <<2, 3>>
  /\ subsystems_allprocs[2] = <<4>>
  /\ LET J == [kind |-> "user", id |-> 1, call |-> 0]
     IN /\ jacobian[0][2] = J
        /\ jacobian[0][4] = J
        /\ jacobian[0][1] = DefaultJacobian(1, 0)
        /\ jacobian[0][3] = DefaultJacobian(3, 0)
        /\ jac_top[0][J] = [top_name |-> <<"A">>, top_system |-> 2,
                            assembler |-> "assembler"]

----------------------------------------------------------------------------
\* C25: after _setup_variable_indices, on every process the
\* _variable_myproc_indices of a resident leaf is, for each kind, the list
\* of the integers of its _variable_allprocs_range in increasing order, and
\* that of a resident group is the concatenation of the lists of its local
\* children in insertion order; the list has no index twice and every index
\* of it lies in the node's range.
C25_MyprocIndices ==
  reached("indices") =>
    \A p \in Procs : \A n \in resident(p) : \A typ \in Typs :
      LET inds == variable_myproc_indices[p][n][typ]
          rng == variable_allprocs_range[p][n][typ]
          myproc == subsystems_myproc[p][n]
      IN /\ (~is_group(n)) =>
              /\ Len(inds) = rng[2] - rng[1]
              /\ \A i \in 1..Len(inds) : inds[i] = rng[1] + i - 1
         /\ is_group(n) =>
              /\ Len(myproc) > 0
              /\ myproc = SelectSeq(subsystems_allprocs[n],
                                    LAMBDA c : c \in resident(p))
              /\ inds = Concat([i \in 1..Len(myproc) |->
                                  variable_myproc_indices[p][myproc[i]][typ]])
         /\ \A i \in 1..Len(inds), j \in 1..Len(inds) :
              i # j => inds[i] # inds[j]
         /\ \A i \in 1..Len(inds) : rng[1] <= inds[i] /\ inds[i] < rng[2]

\* Two processes, the root with two leaves on process 0 and one on process
\* 1; the root's list on process 0 is that of its two local leaves, one
\* after the other.
C25_Witness ==
  /\ stage = "indices"
  /\ nproc = 2
  /\ subsystems_allprocs[1] = <<2, 3, 4>>
  /\ subsystems_myproc[0][1] = <<2, 3>>
  /\ subsystems_myproc[1][1] = <<4>>
  /\ variable_myproc_indices[0][2].output = <<0>>
  /\ variable_myproc_indices[0][3].output = <<1, 2>>
  /\ variable_myproc_indices[0][1].output = <<0, 1, 2>>
  /\ Len(variable_myproc_indices[1][1].output) = 2

----------------------------------------------------------------------------
\* The pair that a declared connection d is resolved to at its node, taken
\* on the first process of the node's comm; a connection with a name that
\* its node does not have is resolved to no pair.

first_proc(m) ==
  LET q == CHOOSE r \in Procs : m \in resident(r)
  IN mpi_proc_range[q][m][1]

resolved(d) == resolvable(first_proc(d[1]), d[1], connection(d))
pair_of(d) == resolve(first_proc(d[1]), d[1], connection(d))

count(s, x) == Cardinality({i \in 1..Len(s) : s[i] = x})

\* The root's resolved list on process p holds the pairs of the connections
\* in the set made, each as often as connections of made resolve to it.
holds_each_once(p, made) ==
  LET list == variable_connections_indices[p][1]
  IN /\ Len(list) = Cardinality(made)
     /\ \A x \in SeqToSet(list) \cup {pair_of(d) : d \in made} :
          count(list, x) = Cardinality({d \in made : pair_of(d) = x})

\* The gathering part of _setup_connections: of the connections that were
\* resolved at their nodes, the root's list holds each one once on every
\* process, whether a child's comm has one process or two.
GatheredOnce ==
  (reached("connections") /\ raised = "none") =>
    \A p \in Procs :
      holds_each_once(p, {d \in declared_connections : resolved(d)})

\* C26: after _setup_connections on the root, on every process the root's
\* resolved list holds each connection declared in the hierarchy exactly
\* once: as many pairs as declared connections, none missing and none twice.
C26_EachConnectionOnce ==
  (reached("connections") /\ raised = "none") =>
    \A p \in Procs :
      /\ Len(variable_connections_indices[p][1]) =
           Cardinality(declared_connections)
      /\ holds_each_once(p, declared_connections)

\* The gathering at work: two processes, the second-level group spans both,
\* it and the root declare one connection each, and both are in the root's
\* list on both processes.
GatheredOnce_Witness ==
  /\ stage = "connections" /\ raised = "none" /\ nproc = 2
  /\ subsystems_allprocs[1] = <<2>> /\ subsystems_allprocs[2] = <<3, 4>>
  /\ subsystems_myproc[0][2] = <<3>> /\ subsystems_myproc[1][2] = <<4>>
  /\ Len(variable_connections[1]) = 1 /\ Len(variable_connections[2]) = 1
  /\ \A p \in Procs : Len(variable_connections_indices[p][1]) = 2
----------------------------------------------------------------------------
\* System._get_vectors.  The storage of the vectors and set_const, which
\* vector.py leaves to the subclass, follow the specification: the root's
\* vector holds one array for each variable of the process, a node's vector
\* is a view of the arrays of the node's variables, and set_const writes the
\* constant to every entry the view shows.

\* The op_names loop: position j of the node's output names has the global
\* index lower bound + j.
relevant_op_names(p, n) ==
  LET names == variable_allprocs_names[p][n]["output"]
      op_ind(j) == variable_allprocs_range[p][n]["output"][1] + j - 1
  IN {names[j] : j \in {i \in 1..Len(names) :
                          op_ind(i) \in vector_var_ids[p][n]}}

\* The ip_names loop.
relevant_ip_names(p, n, var_ind_range) ==
  LET names == variable_allprocs_names[p][n]["input"]
      ip_ind(j) == variable_allprocs_range[p][n]["input"][1] + j - 1
      input_var_id(j) == input_var_ids(p)[ip_ind(j)]
      valid(j) == /\ in_range(ip_ind(j), var_ind_range)
                  /\ input_var_id(j) \in vector_var_ids[p][n]
  IN {names[j] : j \in {i \in 1..Len(names) : valid(i)}}

\* set_const(val) on the vector of kind typ of node n on process p, on the
\* root's arrays data: the arrays of the node's variables become val.
set_const(data, p, n, typ, val) ==
  [k \in 1..Len(data) |->
     IF variable_myproc_metadata[p][1][typ][k]
          \in SeqToSet(variable_myproc_metadata[p][n][typ])
     THEN [i \in 1..Len(data[k]) |-> val]
     ELSE data[k]]

only(names) == [restricted |-> TRUE, names |-> names]

\* The ranges _get_vectors is called with.
VarIndRanges == {<<0, 1>>, <<1, 2>>, <<1, 3>>, <<0, 3>>}

\* _setup_vector on the root for a vector whose relevant variables are
\* var_ids, some of the outputs; the residual vector is stored like the
\* output vector.
SetupVectorFor ==
  /\ stage = "connections"
  /\ \E var_ids \in SUBSET (0..(Len(variable_allprocs_names[0][1]["output"]) - 1)) :
       LET res == [p \in Procs |->
                     setup_vector(p, 1, Vector(1, 0), var_ids,
                                  init_vector_attrs)]
       IN /\ vectors' = [p \in Procs |-> res[p].vectors]
          /\ vector_transfers' = [p \in Procs |-> res[p].vector_transfers]
          /\ vector_var_ids' = [p \in Procs |-> res[p].vector_var_ids]
  /\ vector_data' = [p \in Procs |-> [typ \in Typs |-> initialize_data(p, typ)]]
  /\ residual_data' = [p \in Procs |-> initialize_data(p, "output")]
  /\ stage' = "vectors"
  /\ UNCHANGED <<config_vars, proc_vars, name_vars, metadata, index_vars,
                 conn_vars, applied, view_vars, lsc_vars, mvp_vars, res_vars,
                 tree_vars, vector_names, gv_call, collectives>>

\* Every entry of the three vectors is given a value that is not zero.
filled_with(data, v) ==
  [k \in 1..Len(data) |-> [i \in 1..Len(data[k]) |-> v]]
FillVectors ==
  /\ stage = "vectors"
  /\ vector_data' =
       [p \in Procs |->
          [typ \in Typs |->
             filled_with(vector_data[p][typ], IF typ = "input" THEN 7 ELSE 8)]]
  /\ residual_data' = [p \in Procs |-> filled_with(residual_data[p], 9)]
  /\ stage' = "filled"
  /\ UNCHANGED <<config_vars, proc_vars, name_vars, metadata, index_vars,
                 conn_vars, vectors, vector_transfers, vector_var_ids,
                 applied, view_vars, lsc_vars, mvp_vars, res_vars, tree_vars,
                 vector_names, gv_call, collectives>>

\* _get_vectors(vec_name, var_ind_range, m) of node n on process p.
get_vectors(p, n, var_ind_range, m) ==
  /\ residual_data' =
       IF m = "fwd"
       THEN [residual_data EXCEPT ![p] = set_const(@, p, n, "output", 0)]
       ELSE residual_data
  /\ vector_data' =
       IF m = "rev"
       THEN [vector_data EXCEPT ![p] =
               [typ \in Typs |-> set_const(@[typ], p, n, typ, 0)]]
       ELSE vector_data
  /\ vector_names' =
       [vector_names EXCEPT ![p][n] =
          [@ EXCEPT !.input = only(relevant_ip_names(p, n, var_ind_range)),
                    !.output = only(relevant_op_names(p, n))]]

GetVectors ==
  /\ stage = "filled"
  /\ \E p \in Procs :
     \E n \in resident(p), var_ind_range \in VarIndRanges, m \in Modes :
       /\ get_vectors(p, n, var_ind_range, m)
       /\ gv_call' = [proc |-> p, node |-> n,
                      var_ind_range |-> var_ind_range, mode |-> m]
  /\ stage' = "got"
  /\ UNCHANGED <<config_vars, proc_vars, name_vars, metadata, index_vars,
                 conn_vars, vectors, vector_transfers, vector_var_ids,
                 applied, view_vars, lsc_vars, mvp_vars, res_vars, tree_vars,
                 collectives>>

NextGv ==
  \/ SetupProcessors
  \/ SetupVariables
  \/ SetupVariableIndices
  \/ SetupConnections
  \/ SetupVectorFor
  \/ FillVectors
  \/ GetVectors

\* The hierarchies of InitConn whose connections have no src_indices.
InitGv ==
  /\ InitConn
  /\ \A n \in NodeIds : \A k \in 1..Len(variable_connections[n]) :
       variable_connections[n][k].src_indices = None

SpecGv == InitGv /\ [][NextGv]_vars

\* The call that a GetVectors step makes, and what it leaves.
gv == gv_call'
gv_names(kind) == vector_names'[gv.proc][gv.node][kind]

\* On process p the arrays `after` are the arrays `before` with those of the
\* variables of kind typ under node n set to zero.
zeroed(after, before, p, n, typ) ==
  /\ Len(after) = Len(before)
  /\ \A k \in 1..Len(before) :
       after[k] = IF variable_myproc_metadata[p][1][typ][k][1] \in subtree(n)
                  THEN zeros(Len(before[k])) ELSE before[k]

\* What the call zeroes: in 'fwd' the residuals of the node on the calling
\* process and nothing else, in 'rev' its inputs and outputs and nothing
\* else.
zeroes_by_mode ==
  /\ gv.mode = "fwd" =>
       /\ zeroed(residual_data'[gv.proc], residual_data[gv.proc],
                 gv.proc, gv.node, "output")
       /\ \A q \in Procs \ {gv.proc} : residual_data'[q] = residual_data[q]
       /\ vector_data' = vector_data
  /\ gv.mode = "rev" =>
       /\ \A typ \in Typs :
            zeroed(vector_data'[gv.proc][typ], vector_data[gv.proc][typ],
                   gv.proc, gv.node, typ)
       /\ \A q \in Procs \ {gv.proc} : vector_data'[q] = vector_data[q]
       /\ residual_data' = residual_data

\* The relevance sets the call leaves alone: the residual vector's, and
\* those of every other node and process.
names_kept ==
  /\ gv_names("residual") = vector_names[gv.proc][gv.node]["residual"]
  /\ \A q \in Procs, m \in NodeIds :
       <<q, m>> # <<gv.proc, gv.node>> =>
         vector_names'[q][m] = vector_names[q][m]

\* The names of the node's variables of kind typ and the index the node has
\* for each on the calling process.
gv_all_names(typ) == variable_allprocs_names[gv.proc][gv.node][typ]
gv_index(typ, nm) == variable_allprocs_indices[gv.proc][gv.node][typ][nm]
gv_ids == vector_var_ids[gv.proc][gv.node]
unique_names(typ) ==
  \A nm \in SeqToSet(gv_all_names(typ)) : occurs_once(gv_all_names(typ), nm)

\* The relevance sets of the node's input and output vectors are restricted
\* to the names whose index, given by index_of, passes the tests.
restricted_by(index_of(_, _)) ==
  /\ gv_names("output").restricted
  /\ gv_names("input").restricted
  /\ gv_names("output").names \subseteq SeqToSet(gv_all_names("output"))
  /\ gv_names("input").names \subseteq SeqToSet(gv_all_names("input"))
  /\ \A nm \in SeqToSet(gv_all_names("output")) :
       nm \in gv_names("output").names <=> index_of("output", nm) \in gv_ids
  /\ \A nm \in SeqToSet(gv_all_names("input")) :
       nm \in gv_names("input").names <=>
         /\ in_range(index_of("input", nm), gv.var_ind_range)
         /\ input_var_ids(gv.proc)[index_of("input", nm)] \in gv_ids

\* The global index of the variable that the node calls nm: its position
\* among the variables of the whole model.
global_index(typ, nm) == true_index(var_of(gv.node, typ, nm))

\* With the index that the node's own _variable_allprocs_indices has for a
\* name on the calling process, _get_vectors zeroes by mode and restricts the
\* relevance sets as described, where the node's names are all different.
GetVectorsByNodeIndices ==
  [][GetVectors =>
       /\ zeroes_by_mode
       /\ names_kept
       /\ (unique_names("input") /\ unique_names("output")) =>
            restricted_by(gv_index)]_vars

\* C28: _get_vectors(vec_name, var_ind_range, mode) on a node zeroes only the
\* residual vector in mode 'fwd' and only the input and output vectors in
\* mode 'rev', leaves the residual vector's relevance set as it was, and
\* makes an output name relevant exactly when its global index is among the
\* vector's relevant ids and an input name exactly when its global index is
\* in var_ind_range and its source's id is among those ids; stated for nodes
\* whose names are all different.
C28_GetVectorsFrame ==
  [][GetVectors =>
       /\ zeroes_by_mode
       /\ names_kept
       /\ (unique_names("input") /\ unique_names("output")) =>
            restricted_by(global_index)]_vars

\* A call in each mode on a node with a relevant and a non-relevant output.
GetVectors_Witness ==
  /\ stage = "got" /\ gv_call.mode = "rev" /\ gv_call.node = 1
  /\ vector_names[gv_call.proc][1]["output"].names # {}
  /\ vector_names[gv_call.proc][1]["output"].names
       # SeqToSet(variable_allprocs_names[gv_call.proc][1]["output"])
  /\ vector_names[gv_call.proc][1]["input"].names # {}
  /\ \A k \in 1..Len(vector_data[gv_call.proc]["output"]) :
       vector_data[gv_call.proc]["output"][k] = <<0>>
  /\ \E k \in 1..Len(residual_data[gv_call.proc]) :
       residual_data[gv_call.proc][k] = <<9>>
====
